---- MODULE Spec2Model ----
(***************************************************************************)
(* Model of rapid-front's SwaggerMapper (src/src/mapper/swagger-mapper.ts). *)
(*                                                                         *)
(* JavaScript strings are sequences of one-character strings, so that      *)
(* split, replace, charAt, slice and toUpperCase are computed as the code  *)
(* computes them.  An optional value (undefined or v) is the sequence <<>>  *)
(* or <<v>>.                                                                *)
(***************************************************************************)
EXTENDS Integers, Sequences, FiniteSets, TLC

VARIABLES
    path,          \* pathToFunctionName / getTagFromPath: the path argument
    method,        \* pathToFunctionName: the method argument
    functionName,  \* optional result of pathToFunctionName(path, method)
    inferredTag,   \* optional result of getTagFromPath(path)
    schema,        \* mapEndpoint: the schema node under the operation's
                   \* parameter, request body and response
    endpoint,      \* optional result of mapEndpoint
    schemas,       \* SwaggerMapper.schemas: the entries of the Map, in order
    api,           \* optional document passed to mapToModules
    selectedTags,  \* optional tag list passed to mapToModules
    modules,       \* optional result of mapToModules
    tagArg,        \* tagToModuleName: the optional tag argument
    moduleName,    \* optional result of tagToModuleName(tagArg)
    responsesArg,  \* mapResponses: the optional responses object, as its
                   \* entries in the order of their declaration
    pc,            \* the position of initCommand / CodeGenerator.generate
    answers,       \* optional WizardAnswers (library, language, selectionMode)
    templates,     \* TemplateEngine.templates: the libraries with a template
    dirs,          \* the directories created so far
    writes,        \* the files written so far, in the order of the writes
    error,         \* optional error thrown out of the running function
    cursor,        \* generate: the index of the module generated next
    dependencyCheck, \* DependencyManager.checkAndInstall has been started
    rendered,      \* TemplateEngine.generateModule: the optional text the
                   \* template has rendered, as the blocks it is made of
    languageArg,   \* TemplateEngine.generateModule: the language argument
    generatedCode  \* optional text returned by TemplateEngine.generateModule

vars == <<path, method, functionName, inferredTag, schema, endpoint,
          schemas, api, selectedTags, modules, tagArg, moduleName, responsesArg,
          pc, answers, templates, dirs, writes, error, cursor, dependencyCheck,
          rendered, languageArg, generatedCode>>

-----------------------------------------------------------------------------
(* Bounds *)

\* longest generated path, not counting its leading '/'
MaxPathLen == 4

\* deepest nesting of items below a generated schema node
MaxDepth == 2

\* most operations declared by a generated document
MaxOps == 2

\* most responses declared by a generated operation
MaxResponses == 1

-----------------------------------------------------------------------------
(* String primitives of the JavaScript runtime *)

LowerLetters ==
    <<"a","b","c","d","e","f","g","h","i","j","k","l","m",
      "n","o","p","q","r","s","t","u","v","w","x","y","z">>

UpperLetters ==
    <<"A","B","C","D","E","F","G","H","I","J","K","L","M",
      "N","O","P","Q","R","S","T","U","V","W","X","Y","Z">>

Digits == {"0","1","2","3","4","5","6","7","8","9"}

Range(s) == { s[i] : i \in 1..Len(s) }

\* String.prototype.toUpperCase on one character
CharToUpper(c) ==
    IF \E i \in 1..26 : LowerLetters[i] = c
    THEN UpperLetters[CHOOSE i \in 1..26 : LowerLetters[i] = c]
    ELSE c

\* String.prototype.toLowerCase on one character
CharToLower(c) ==
    IF \E i \in 1..26 : UpperLetters[i] = c
    THEN LowerLetters[CHOOSE i \in 1..26 : UpperLetters[i] = c]
    ELSE c

toUpperCase(str) == [i \in 1..Len(str) |-> CharToUpper(str[i])]

toLowerCase(str) == [i \in 1..Len(str) |-> CharToLower(str[i])]

\* str.slice(from) with a 0-based non-negative index
SliceFrom(str, from) == SubSeq(str, from + 1, Len(str))

\* str.split(sep) for a one-character separator: the pieces between the
\* separators, empty pieces included ("".split('/') is [""])
RECURSIVE split(_, _)
split(str, sep) ==
    IF \A i \in 1..Len(str) : str[i] # sep
    THEN <<str>>
    ELSE LET i == CHOOSE k \in 1..Len(str) :
                     /\ str[k] = sep
                     /\ \A j \in 1..(k - 1) : str[j] # sep
         IN  <<SubSeq(str, 1, i - 1)>> \o split(SubSeq(str, i + 1, Len(str)), sep)

\* array.filter(s => s.length > 0)
RECURSIVE filterNonEmpty(_)
filterNonEmpty(arr) ==
    IF arr = <<>> THEN <<>>
    ELSE IF Len(Head(arr)) > 0
         THEN <<Head(arr)>> \o filterNonEmpty(Tail(arr))
         ELSE filterNonEmpty(Tail(arr))

\* array.join('')
RECURSIVE join(_)
join(arr) == IF arr = <<>> THEN <<>> ELSE Head(arr) \o join(Tail(arr))

\* str.replace(/[{}]/g, '')
RECURSIVE stripBraces(_)
stripBraces(str) ==
    IF str = <<>> THEN <<>>
    ELSE IF Head(str) \in {"{", "}"}
         THEN stripBraces(Tail(str))
         ELSE <<Head(str)>> \o stripBraces(Tail(str))

-----------------------------------------------------------------------------
(* SwaggerMapper: naming helpers *)

\* toCamelCase with the character class [-] in place of [-_]
RECURSIVE toCamelCaseHyphenOnly(_)
toCamelCaseHyphenOnly(str) ==
    IF str = <<>> THEN <<>>
    ELSE IF Head(str) = "-" /\ Len(str) >= 2
         THEN <<CharToUpper(str[2])>> \o toCamelCaseHyphenOnly(SubSeq(str, 3, Len(str)))
         ELSE <<Head(str)>> \o toCamelCaseHyphenOnly(Tail(str))

\* toCamelCase: str.replace(/[-_](.)/g, (_, char) => char.toUpperCase()).
\* Matches are found left to right and do not overlap; the generated
\* alphabet holds no line terminator, so '.' matches every character.
RECURSIVE toCamelCase(_)
toCamelCase(str) ==
    IF str = <<>> THEN <<>>
    ELSE IF Head(str) \in {"-", "_"} /\ Len(str) >= 2
         THEN <<CharToUpper(str[2])>> \o toCamelCase(SubSeq(str, 3, Len(str)))
         ELSE <<Head(str)>> \o toCamelCase(Tail(str))

\* capitalize: str.charAt(0).toUpperCase() + str.slice(1)
capitalize(str) ==
    (IF Len(str) > 0 THEN <<CharToUpper(str[1])>> ELSE <<>>) \o SliceFrom(str, 1)

\* segment.startsWith('{') && segment.endsWith('}')
IsParamSegment(segment) ==
    /\ Len(segment) >= 1
    /\ segment[1] = "{"
    /\ segment[Len(segment)] = "}"

\* segment.slice(1, -1)
SliceInner(segment) ==
    IF Len(segment) >= 2 THEN SubSeq(segment, 2, Len(segment) - 1) ELSE <<>>

\* the callback of segments.map in pathToFunctionName
SegmentToken(segment) ==
    IF IsParamSegment(segment)
    THEN <<"B", "y">> \o capitalize(toCamelCase(SliceInner(segment)))
    ELSE toCamelCase(segment)

pathToFunctionName(p, m) ==
    LET segs         == filterNonEmpty(split(p, "/"))
        segments     == [i \in 1..Len(segs) |-> SegmentToken(segs[i])]
        methodPrefix == toLowerCase(m)
        fnName       == join([i \in 1..Len(segments) |-> capitalize(segments[i])])
    IN  methodPrefix \o fnName

Default == <<"D","e","f","a","u","l","t">>

\* getTagFromPath without the call of capitalize
getTagFromPathLower(p) ==
    LET segments == filterNonEmpty(split(p, "/"))
    IN  IF Len(segments) = 0 THEN Default
        ELSE stripBraces(segments[1])

\* getTagFromPath without the replace of the braces
getTagFromPathKeepBraces(p) ==
    LET segments == filterNonEmpty(split(p, "/"))
    IN  IF Len(segments) = 0 THEN Default
        ELSE capitalize(segments[1])

getTagFromPath(p) ==
    LET segments == filterNonEmpty(split(p, "/"))
    IN  IF Len(segments) = 0 THEN Default
        ELSE capitalize(stripBraces(segments[1]))

-----------------------------------------------------------------------------
(* SwaggerMapper: type resolution *)

AnyType == <<"a","n","y">>

ArraySuffix == <<"[","]">>

\* the keys and values of typeMap in getTypeFromSchema
typeMap ==
    [ string  |-> <<"s","t","r","i","n","g">>,
      number  |-> <<"n","u","m","b","e","r">>,
      integer |-> <<"n","u","m","b","e","r">>,
      boolean |-> <<"b","o","o","l","e","a","n">>,
      array   |-> <<"a","n","y","[","]">>,
      object  |-> <<"a","n","y">> ]

\* schema.$ref is truthy: present and not the empty string
HasRef(node) == node.ref # <<>> /\ node.ref[1] # <<>>

\* schema.$ref.split('/').pop() || 'any'
RefName(node) ==
    LET parts == split(node.ref[1], "/")
        last  == parts[Len(parts)]
    IN  IF last # <<>> THEN last ELSE AnyType

\* getTypeFromSchema(schema); the argument is optional
getTypeFromSchema(optNode) ==
    IF optNode = <<>> THEN AnyType
    ELSE LET node == optNode[1]
         IN  IF HasRef(node) THEN RefName(node)
             ELSE IF node.type # <<>> /\ node.type[1] \in DOMAIN typeMap
                  THEN typeMap[node.type[1]]
                  ELSE AnyType

\* getSchemaName without the recursion into items
getSchemaNameFlat(node) ==
    IF HasRef(node) THEN RefName(node)
    ELSE getTypeFromSchema(<<node>>)

RECURSIVE getSchemaName(_)
getSchemaName(node) ==
    IF HasRef(node) THEN RefName(node)
    ELSE IF node.type = <<"array">> /\ node.items # <<>>
         THEN getSchemaName(node.items[1]) \o ArraySuffix
         ELSE getTypeFromSchema(<<node>>)

ApplicationJson == "application/json"

\* Object.keys(content) of a content object kept as its entries in order
Keys(entries) == [i \in 1..Len(entries) |-> entries[i].key]

HasKey(entries, k) == \E i \in 1..Len(entries) : entries[i].key = k

\* entries[k] for a key that is present
Lookup(entries, k) ==
    entries[CHOOSE i \in 1..Len(entries) : entries[i].key = k].value

mapParameters(parameters) ==
    [i \in 1..Len(parameters) |->
        [ name     |-> parameters[i].name,
          in       |-> parameters[i].in,
          required |-> IF parameters[i].required = <<>> THEN FALSE
                       ELSE parameters[i].required[1],
          type     |-> getTypeFromSchema(parameters[i].schema) ]]

\* mapRequestBody(requestBody); the argument and the result are optional
mapRequestBody(optBody) ==
    IF optBody = <<>> THEN <<>>
    ELSE LET requestBody == optBody[1]
             content     == IF requestBody.content = <<>> THEN <<>>
                            ELSE requestBody.content[1]
             contentType == IF Len(content) > 0 THEN Keys(content)[1]
                            ELSE ApplicationJson
             optSchema   == IF HasKey(content, contentType)
                            THEN Lookup(content, contentType).schema
                            ELSE <<>>
         IN  << [ required    |-> IF requestBody.required = <<>> THEN FALSE
                                  ELSE requestBody.required[1],
                  contentType |-> contentType,
                  schema      |-> IF optSchema # <<>>
                                  THEN getSchemaName(optSchema[1])
                                  ELSE AnyType ] >>

\* getResponseSchema(response); the result is optional
getResponseSchema(response) ==
    IF response.content = <<>> THEN <<>>
    ELSE LET entries == response.content[1]
             content == IF HasKey(entries, ApplicationJson)
                        THEN <<Lookup(entries, ApplicationJson)>>
                        ELSE IF Len(entries) > 0 THEN <<entries[1].value>>
                        ELSE <<>>
         IN  IF content = <<>> \/ content[1].schema = <<>> THEN <<>>
             ELSE <<getSchemaName(content[1].schema[1])>>

\* the keys of generated responses objects that are array indices
\* (canonical numeric strings), with their values
ArrayIndex == ("200" :> 200) @@ ("404" :> 404) @@ ("500" :> 500) @@ ("503" :> 503)

IsArrayIndex(k) == k \in DOMAIN ArrayIndex

\* entries with array-index keys, in ascending order of the index
RECURSIVE IndexEntriesAscending(_)
IndexEntriesAscending(entries) ==
    IF entries = <<>> THEN <<>>
    ELSE LET i == CHOOSE a \in 1..Len(entries) :
                     \A b \in 1..Len(entries) :
                         ArrayIndex[entries[a].key] <= ArrayIndex[entries[b].key]
         IN  <<entries[i]>> \o
             IndexEntriesAscending(SubSeq(entries, 1, i - 1)
                                       \o SubSeq(entries, i + 1, Len(entries)))

\* Object.entries(obj) of an object kept as its entries in the order of
\* their creation: the array-index keys first, ascending, then the other
\* keys in the order of their creation
ObjectEntries(obj) ==
    LET IsIndexEntry(e) == IsArrayIndex(e.key)
        IsNameEntry(e)  == ~IsArrayIndex(e.key)
    IN  IndexEntriesAscending(SelectSeq(obj, IsIndexEntry)) \o SelectSeq(obj, IsNameEntry)

\* mapResponses(responses): responses are the entries of the object in the
\* order of their declaration
mapResponses(responses) ==
    LET entries == ObjectEntries(responses)
    IN  [i \in 1..Len(entries) |->
            [ statusCode |-> entries[i].key,
              schema     |-> getResponseSchema(entries[i].value) ]]

\* mapEndpoint(path, method, operation).  The summary and description
\* fields are copied through unread and are left out.
mapEndpoint(p, m, operation) ==
    LET fnName == pathToFunctionName(p, m)
    IN  [ operationId  |-> IF operation.operationId # <<>> /\ operation.operationId[1] # <<>>
                           THEN operation.operationId[1] ELSE fnName,
          functionName |-> fnName,
          method       |-> m,
          path         |-> p,
          parameters   |-> mapParameters(IF operation.parameters = <<>> THEN <<>>
                                         ELSE operation.parameters[1]),
          requestBody  |-> mapRequestBody(operation.requestBody),
          responses    |-> mapResponses(IF operation.responses = <<>> THEN <<>>
                                        ELSE operation.responses[1]),
          tags         |-> IF operation.tags = <<>> THEN <<>> ELSE operation.tags[1] ]

-----------------------------------------------------------------------------
(* SwaggerMapper: schema catalog and module grouping *)

\* the method list of mapToModules
MethodKeys ==
    << <<"g","e","t">>, <<"p","o","s","t">>, <<"p","u","t">>,
       <<"d","e","l","e","t","e">>, <<"p","a","t","c","h">> >>

\* Map.prototype.has / get / set on a Map kept as its entries in insertion
\* order; set on a present key replaces the value and keeps the position
MapHas(entries, k) == \E i \in 1..Len(entries) : entries[i].key = k

MapGet(entries, k) ==
    entries[CHOOSE i \in 1..Len(entries) : entries[i].key = k].value

MapSet(entries, k, v) ==
    IF MapHas(entries, k)
    THEN [i \in 1..Len(entries) |->
            IF entries[i].key = k THEN [key |-> k, value |-> v] ELSE entries[i]]
    ELSE Append(entries, [key |-> k, value |-> v])

\* one forEach of extractSchemas over the entries of a schema container
RECURSIVE SetSchemas(_, _)
SetSchemas(catalog, defs) ==
    IF defs = <<>> THEN catalog
    ELSE SetSchemas(
            MapSet(catalog, Head(defs).key,
                   [ name       |-> Head(defs).key,
                     properties |-> IF Head(defs).value.properties = <<>> THEN {}
                                    ELSE Head(defs).value.properties[1],
                     required   |-> Head(defs).value.required ]),
            Tail(defs))

\* extractSchemas(api): the catalog after the call
extractSchemas(catalog, doc) ==
    LET fromComponents ==
            IF doc.components # <<>> /\ doc.components[1].schemas # <<>>
            THEN SetSchemas(catalog, doc.components[1].schemas[1])
            ELSE catalog
    IN  IF doc.definitions # <<>>
        THEN SetSchemas(fromComponents, doc.definitions[1])
        ELSE fromComponents

\* the separators of /[\s-_]+/
IsTagSeparator(c) == c \in {" ", "-", "_"}

\* tag.split(/[\s-_]+/): the pieces between the maximal runs of separators
RECURSIVE splitOnSeparators(_)
splitOnSeparators(str) ==
    IF \A i \in 1..Len(str) : ~IsTagSeparator(str[i])
    THEN <<str>>
    ELSE LET i == CHOOSE k \in 1..Len(str) :
                     /\ IsTagSeparator(str[k])
                     /\ \A j \in 1..(k - 1) : ~IsTagSeparator(str[j])
             n == CHOOSE k \in i..Len(str) :
                     /\ \A j \in i..k : IsTagSeparator(str[j])
                     /\ (k = Len(str) \/ ~IsTagSeparator(str[k + 1]))
         IN  <<SubSeq(str, 1, i - 1)>> \o splitOnSeparators(SubSeq(str, n + 1, Len(str)))

tagToModuleName(tag) ==
    LET words == splitOnSeparators(tag)
    IN  join([i \in 1..Len(words) |-> capitalize(words[i])])

\* str.replace('[]', ''): a string pattern replaces its first occurrence only
replaceArraySuffix(str) ==
    IF \E i \in 1..(Len(str) - 1) : str[i] = "[" /\ str[i + 1] = "]"
    THEN LET i == CHOOSE k \in 1..(Len(str) - 1) :
                     /\ str[k] = "[" /\ str[k + 1] = "]"
                     /\ \A j \in 1..(k - 1) : ~(str[j] = "[" /\ str[j + 1] = "]")
         IN  SubSeq(str, 1, i - 1) \o SubSeq(str, i + 2, Len(str))
    ELSE str

\* Set.prototype.add on a Set kept as its elements in insertion order
SetAdd(elems, e) ==
    IF \E i \in 1..Len(elems) : elems[i] = e THEN elems ELSE Append(elems, e)

\* the body of one branch of getSchemasForModule: a recorded type name
AddBaseName(catalog, names, typeName) ==
    LET baseName == replaceArraySuffix(typeName)
    IN  IF typeName # <<>> /\ MapHas(catalog, baseName)
        THEN SetAdd(names, baseName)
        ELSE names

RECURSIVE AddResponseNames(_, _, _)
AddResponseNames(catalog, names, responses) ==
    IF responses = <<>> THEN names
    ELSE AddResponseNames(
            catalog,
            IF Head(responses).schema # <<>>
            THEN AddBaseName(catalog, names, Head(responses).schema[1])
            ELSE names,
            Tail(responses))

RECURSIVE CollectSchemaNames(_, _, _)
CollectSchemaNames(catalog, names, endpoints) ==
    IF endpoints = <<>> THEN names
    ELSE LET ep       == Head(endpoints)
             fromBody == IF ep.requestBody # <<>>
                         THEN AddBaseName(catalog, names, ep.requestBody[1].schema)
                         ELSE names
         IN  CollectSchemaNames(catalog,
                                AddResponseNames(catalog, fromBody, ep.responses),
                                Tail(endpoints))

getSchemasForModule(catalog, endpoints) ==
    LET schemaNames == CollectSchemaNames(catalog, <<>>, endpoints)
    IN  [i \in 1..Len(schemaNames) |-> MapGet(catalog, schemaNames[i])]

\* selectedTags.includes(tag)
Includes(arr, e) == \E i \in 1..Len(arr) : arr[i] = e

\* the tags.forEach with a skip that ends the loop instead of the iteration
RECURSIVE PushToModulesBreak(_, _, _, _)
PushToModulesBreak(moduleMap, ep, tags, selected) ==
    IF tags = <<>> THEN moduleMap
    ELSE LET tag == Head(tags)
         IN  IF selected # <<>> /\ ~Includes(selected[1], tag)
             THEN moduleMap
             ELSE PushToModulesBreak(
                     MapSet(moduleMap, tag,
                            Append(IF MapHas(moduleMap, tag)
                                   THEN MapGet(moduleMap, tag) ELSE <<>>, ep)),
                     ep, Tail(tags), selected)

\* the tags.forEach replaced by a push under the first tag only
PushToFirstTag(moduleMap, ep, tags, selected) ==
    IF tags = <<>> THEN moduleMap
    ELSE LET tag == Head(tags)
         IN  IF selected # <<>> /\ ~Includes(selected[1], tag)
             THEN moduleMap
             ELSE MapSet(moduleMap, tag,
                         Append(IF MapHas(moduleMap, tag)
                                THEN MapGet(moduleMap, tag) ELSE <<>>, ep))

\* the tags.forEach of mapToModules for one endpoint
RECURSIVE PushToModules(_, _, _, _)
PushToModules(moduleMap, ep, tags, selected) ==
    IF tags = <<>> THEN moduleMap
    ELSE LET tag == Head(tags)
             next ==
                IF selected # <<>> /\ ~Includes(selected[1], tag)
                THEN moduleMap
                ELSE MapSet(moduleMap, tag,
                            Append(IF MapHas(moduleMap, tag)
                                   THEN MapGet(moduleMap, tag) ELSE <<>>, ep))
         IN  PushToModules(next, ep, Tail(tags), selected)

\* the method loop of mapToModules over one path item, from method index k
RECURSIVE MapPathItem(_, _, _, _, _)
MapPathItem(moduleMap, p, pathItem, selected, k) ==
    IF k > Len(MethodKeys) THEN moduleMap
    ELSE IF ~HasKey(pathItem, MethodKeys[k])
         THEN MapPathItem(moduleMap, p, pathItem, selected, k + 1)
         ELSE LET operation == Lookup(pathItem, MethodKeys[k])
                  ep   == mapEndpoint(p, toUpperCase(MethodKeys[k]), operation)
                  tags == IF Len(ep.tags) > 0 THEN ep.tags
                          ELSE <<getTagFromPath(p)>>
              IN  MapPathItem(PushToModules(moduleMap, ep, tags, selected),
                              p, pathItem, selected, k + 1)

\* the path loop of mapToModules
RECURSIVE MapPaths(_, _, _)
MapPaths(moduleMap, paths, selected) ==
    IF paths = <<>> THEN moduleMap
    ELSE MapPaths(MapPathItem(moduleMap, Head(paths).key, Head(paths).value,
                              selected, 1),
                  Tail(paths), selected)

\* mapToModules(api, selectedTags) on a mapper whose catalog is `catalog`:
\* the catalog after the call and the returned modules
mapToModules(catalog, doc, selected) ==
    LET catalogAfter == extractSchemas(catalog, doc)
        moduleMap    == IF doc.paths # <<>>
                        THEN MapPaths(<<>>, doc.paths[1], selected)
                        ELSE <<>>
    IN  [ schemas |-> catalogAfter,
          modules |-> [i \in 1..Len(moduleMap) |->
                        [ moduleName |-> tagToModuleName(moduleMap[i].key),
                          tag        |-> moduleMap[i].key,
                          endpoints  |-> moduleMap[i].value,
                          schemas    |-> getSchemasForModule(catalogAfter,
                                                             moduleMap[i].value) ]] ]

-----------------------------------------------------------------------------
(* Inputs of the naming functions *)

\* method.toUpperCase() as mapToModules passes it to mapEndpoint
Methods == { toUpperCase(MethodKeys[i]) : i \in 1..Len(MethodKeys) }

GET == <<"G","E","T">>

PathChars == {"/", "{", "}", "-", "_", "a", "1", "."}

SeqsUpTo(S, n) == UNION { [1..k -> S] : k \in 0..n }

OrderHistoryPath ==
    <<"/","o","r","d","e","r","-","h","i","s","t","o","r","y","/","{","i","d","}">>

UsersOrdersPath ==
    <<"/","u","s","e","r","s","/","{","i","d","}","/","o","r","d","e","r","s">>

ProductsPath == <<"/","p","r","o","d","u","c","t","s">>

UsersIdPath == <<"/","u","s","e","r","s","/","{","i","d","}">>

RootPath == <<"/">>

BraceIdPath == <<"/","{","i","d","}">>

\* an OpenAPI path starts with '/'
PathStrings ==
    { <<"/">> \o s : s \in SeqsUpTo(PathChars, MaxPathLen) }
        \cup {OrderHistoryPath, UsersOrdersPath, ProductsPath, UsersIdPath}

\* the schema node {}
NoSchema == [ref |-> <<>>, type |-> <<>>, items |-> <<>>]

mapperVars == <<schemas, api, selectedTags, modules>>

\* a SwaggerMapper on which mapToModules has not been called
MapperIdle ==
    /\ schemas = <<>>
    /\ api = <<>>
    /\ selectedTags = <<>>
    /\ modules = <<>>

tagVars == <<tagArg, moduleName>>

textVars == <<rendered, languageArg, generatedCode>>

generatorVars ==
    <<pc, answers, templates, dirs, writes, error, cursor, dependencyCheck, textVars>>

otherVars == <<tagVars, responsesArg, generatorVars>>

\* tagToModuleName has not been called
TagIdle ==
    /\ tagArg = <<>>
    /\ moduleName = <<>>

\* TemplateEngine.generateModule has not been called on a text
TextIdle ==
    /\ rendered = <<>>
    /\ languageArg = "typescript"
    /\ generatedCode = <<>>

\* neither initCommand nor a CodeGenerator is running
GeneratorIdle ==
    /\ TextIdle
    /\ pc = "idle"
    /\ answers = <<>>
    /\ templates = {}
    /\ dirs = {}
    /\ writes = <<>>
    /\ error = <<>>
    /\ cursor = 0
    /\ dependencyCheck = FALSE

OthersIdle ==
    /\ TagIdle
    /\ responsesArg = <<>>
    /\ GeneratorIdle

-----------------------------------------------------------------------------
(* Specification of the naming functions: the arguments are drawn in the   *)
(* initial state and each function is applied once.                        *)

InitName ==
    /\ path \in PathStrings
    /\ method \in Methods
    /\ functionName = <<>>
    /\ inferredTag = <<>>
    /\ schema = NoSchema
    /\ endpoint = <<>>
    /\ MapperIdle
    /\ OthersIdle

CallPathToFunctionName ==
    /\ functionName = <<>>
    /\ functionName' = <<pathToFunctionName(path, method)>>
    /\ UNCHANGED <<path, method, inferredTag, schema, endpoint, mapperVars, otherVars>>

CallGetTagFromPath ==
    /\ inferredTag = <<>>
    /\ inferredTag' = <<getTagFromPath(path)>>
    /\ UNCHANGED <<path, method, functionName, schema, endpoint, mapperVars, otherVars>>

NextName == CallPathToFunctionName \/ CallGetTagFromPath

SpecName == InitName /\ [][NextName]_vars

-----------------------------------------------------------------------------
(* Inputs of type resolution *)

RefT == <<"#","/","c","o","m","p","o","n","e","n","t","s","/","s","c","h","e","m","a","s","/","T">>

RefU == <<"#","/","d","e","f","i","n","i","t","i","o","n","s","/","U">>

\* a reference whose target ends with '/'
RefSlash == <<"#","/","d","e","f","i","n","i","t","i","o","n","s","/">>

RefOptions == {<<>>, <<RefT>>, <<RefU>>, <<RefSlash>>}

TypeOptions == {<<>>, <<"array">>, <<"string">>, <<"integer">>, <<"file">>}

\* the schema nodes whose items nest at most d deep
RECURSIVE SchemaNodes(_)
SchemaNodes(d) ==
    LET itemOptions == IF d = 0 THEN {<<>>}
                       ELSE {<<>>} \cup { <<n>> : n \in SchemaNodes(d - 1) }
    IN  { [ref |-> r, type |-> t, items |-> i] :
            r \in RefOptions, t \in TypeOptions, i \in itemOptions }

\* an operation with one parameter, a JSON request body and a 200 response,
\* all three declared with the schema node s
OperationWith(s) ==
    [ operationId |-> <<>>,
      tags        |-> <<>>,
      parameters  |-> << << [ name |-> "p", in |-> "query", required |-> <<>>,
                              schema |-> <<s>> ] >> >>,
      requestBody |-> << [ required |-> <<>>,
                           content  |-> << << [ key   |-> ApplicationJson,
                                                value |-> [schema |-> <<s>>] ] >> >> ] >>,
      responses   |-> << << [ key   |-> "200",
                              value |-> [ content |-> << << [ key   |-> ApplicationJson,
                                                              value |-> [schema |-> <<s>>] ] >> >> ] ] >> >> ]

InitType ==
    /\ path = UsersIdPath
    /\ method = GET
    /\ functionName = <<>>
    /\ inferredTag = <<>>
    /\ schema \in SchemaNodes(MaxDepth)
    /\ endpoint = <<>>
    /\ MapperIdle
    /\ OthersIdle

CallMapEndpoint ==
    /\ endpoint = <<>>
    /\ endpoint' = <<mapEndpoint(path, method, OperationWith(schema))>>
    /\ UNCHANGED <<path, method, functionName, inferredTag, schema, mapperVars, otherVars>>

NextType == CallMapEndpoint

SpecType == InitType /\ [][NextType]_vars

-----------------------------------------------------------------------------
(* Documents *)

TagA == <<"A">>

TagProducts == <<"P","r","o","d","u","c","t","s">>

DeclaredTags == {TagA, TagProducts}

SchemaT == <<"T">>

SchemaU == <<"U">>

DocPaths == {ProductsPath, BraceIdPath, RootPath}

\* the method keys under which generated documents declare operations
DocMethodKeys == {MethodKeys[1], MethodKeys[2]}

\* operation.tags: absent, or a list of different declared tags
TagOptions ==
    {<<>>, << <<>> >>, << <<TagA>> >>, << <<TagProducts>> >>,
     << <<TagA, TagProducts>> >>, << <<TagProducts, TagA>> >>}

Operation(tags, body, responses) ==
    [ operationId |-> <<>>, tags |-> tags, parameters |-> <<>>,
      requestBody |-> body, responses |-> responses ]

\* operations that differ in their tags only
GroupingOps == { Operation(t, <<>>, <<>>) : t \in TagOptions }

\* the places (path, method key) of k operations in declaration order: no
\* place twice, and the operations of one path item next to each other
Placements(k) ==
    { pl \in [1..k -> DocPaths \X DocMethodKeys] :
        /\ \A i, j \in 1..k : i # j => pl[i] # pl[j]
        /\ \A i, j \in 1..k :
              (i < j /\ pl[i][1] = pl[j][1]) =>
                  \A m \in i..j : pl[m][1] = pl[i][1] }

\* api.paths for operations ops placed at pl: one entry per path in the
\* order of its first operation, holding the operations of that path
RECURSIVE BuildPaths(_, _)
BuildPaths(pl, ops) ==
    IF pl = <<>> THEN <<>>
    ELSE LET rest == BuildPaths(Tail(pl), Tail(ops))
             here == [key |-> Head(pl)[2], value |-> Head(ops)]
         IN  IF rest # <<>> /\ Head(rest).key = Head(pl)[1]
             THEN <<[key |-> Head(pl)[1], value |-> <<here>> \o Head(rest).value]>>
                     \o Tail(rest)
             ELSE <<[key |-> Head(pl)[1], value |-> <<here>>]>> \o rest

Document(paths, components, definitions) ==
    [paths |-> paths, components |-> components, definitions |-> definitions]

\* a document without schemas whose operations differ in path, method and
\* tags
GroupingDoc(pl, ops) == Document(<<BuildPaths(pl, ops)>>, <<>>, <<>>)

\* a document without a paths object
NoPathsDoc == Document(<<>>, <<>>, <<>>)

\* the chains array of ... of base, at most d deep
RECURSIVE ArrayChains(_, _)
ArrayChains(base, d) ==
    IF d = 0 THEN {base}
    ELSE {base} \cup { [ref |-> <<>>, type |-> <<"array">>, items |-> <<n>>] :
                         n \in ArrayChains(base, d - 1) }

\* the schema nodes of generated documents: arrays of a reference to T, a
\* reference to U and a string
DocNodes(maxDepth) ==
    ArrayChains([ref |-> <<RefT>>, type |-> <<>>, items |-> <<>>], maxDepth)
        \cup { [ref |-> <<RefU>>, type |-> <<>>, items |-> <<>>],
               [ref |-> <<>>, type |-> <<"string">>, items |-> <<>>] }

JsonContent(node) ==
    << << [key |-> ApplicationJson, value |-> [schema |-> <<node>>]] >> >>

BodyOptions(nodes) ==
    {<<>>, <<[required |-> <<>>, content |-> <<>>]>>}
        \cup { <<[required |-> <<TRUE>>, content |-> JsonContent(n)]>> : n \in nodes }

ResponseOptions(nodes) ==
    { [content |-> <<>>] } \cup { [content |-> JsonContent(n)] : n \in nodes }

StatusCodes == <<"200", "404", "500", "503">>

\* operation.responses: absent, or at most maxResponses entries
ResponsesOptions(nodes, maxResponses) ==
    {<<>>} \cup
    UNION { { << [i \in 1..k |-> [key |-> StatusCodes[i], value |-> rs[i]]] >> :
                rs \in [1..k -> ResponseOptions(nodes)] } : k \in 0..maxResponses }

\* operation.tags of the operations that differ in body and responses
SchemaOpTags == {<<>>, << <<TagA>> >>}

RawSchema == [properties |-> <<{"id"}>>, required |-> << <<"id">> >>]

ComponentsOptions ==
    {<<>>, <<[schemas |-> <<>>]>>,
     <<[schemas |-> << <<[key |-> SchemaT, value |-> RawSchema]>> >>]>>}

DefinitionsOptions == {<<>>, << <<[key |-> SchemaU, value |-> RawSchema]>> >>}

\* a document with one operation, whose body and responses name schemas
SchemaDoc(op, components, definitions) ==
    Document(<<BuildPaths(<< <<ProductsPath, MethodKeys[1]>> >>, <<op>>)>>,
             components, definitions)

\* raw schema definitions with and without properties and required
RawSchemas ==
    { [properties |-> p, required |-> r] :
        p \in {<<>>, <<{"id"}>>}, r \in {<<>>, << <<"id">> >>} }

SchemaNameLists == {<<>>, <<SchemaT>>, <<SchemaU>>, <<SchemaT, SchemaU>>}

\* the schema containers that define the names of the list names
ContainersOver(names) ==
    { [i \in 1..Len(names) |-> [key |-> names[i], value |-> v[i]]] :
        v \in [1..Len(names) -> RawSchemas] }

\* api.components: absent or without schemas when no name is defined
CatalogComponents(names) ==
    (IF names = <<>> THEN {<<>>, <<[schemas |-> <<>>]>>} ELSE {})
        \cup { <<[schemas |-> <<e>>]>> : e \in ContainersOver(names) }

\* api.definitions: absent when no name is defined
CatalogDefinitions(names) ==
    (IF names = <<>> THEN {<<>>} ELSE {})
        \cup { <<e>> : e \in ContainersOver(names) }

UserIdHyphenPath == <<"/","u","s","e","r","-","i","d">>

UserIdUnderscorePath == <<"/","u","s","e","r","_","i","d">>

\* different paths that pathToFunctionName maps to one name
CollidingPaths == {UserIdHyphenPath, UserIdUnderscorePath}

CollisionTags == {<<>>, << <<TagA>> >>}

\* a document with a GET operation on each of two paths
CollisionDoc(first, second, t1, t2) ==
    Document(<<BuildPaths(<< <<first, MethodKeys[1]>>, <<second, MethodKeys[1]>> >>,
                          << Operation(t1, <<>>, <<>>), Operation(t2, <<>>, <<>>) >>)>>,
             <<>>, <<>>)

SetToSeq(S) ==
    CHOOSE f \in [1..Cardinality(S) -> S] : \A i, j \in 1..Cardinality(S) : i # j => f[i] # f[j]

\* selectedTags: undefined, or a list of declared tags
Filters == {<<>>} \cup { <<SetToSeq(S)>> : S \in SUBSET DeclaredTags }

-----------------------------------------------------------------------------
(* Specification of one mapper: initCommand constructs a SwaggerMapper and *)
(* calls mapToModules on it once.                                          *)

Init ==
    /\ path = RootPath
    /\ method = GET
    /\ functionName = <<>>
    /\ inferredTag = <<>>
    /\ schema = NoSchema
    /\ endpoint = <<>>
    /\ MapperIdle
    /\ OthersIdle

\* mapper.mapToModules(doc, selected)
CallMapToModules(doc, selected) ==
    \E result \in {mapToModules(schemas, doc, selected)} :
        /\ api' = <<doc>>
        /\ selectedTags' = selected
        /\ schemas' = result.schemas
        /\ modules' = <<result.modules>>

MapToModules ==
    /\ modules = <<>>
    /\ \E selected \in Filters :
          \/ CallMapToModules(NoPathsDoc, selected)
          \/ \E k \in 0..MaxOps :
                \E pl \in Placements(k), ops \in [1..k -> GroupingOps] :
                    CallMapToModules(GroupingDoc(pl, ops), selected)
          \/ \E t \in SchemaOpTags,
                 b \in BodyOptions(DocNodes(MaxDepth)),
                 r \in ResponsesOptions(DocNodes(MaxDepth), MaxResponses),
                 c \in ComponentsOptions, d \in DefinitionsOptions :
                    CallMapToModules(SchemaDoc(Operation(t, b, r), c, d), selected)
          \/ \E cn \in SchemaNameLists, dn \in SchemaNameLists :
                \E c \in CatalogComponents(cn), d \in CatalogDefinitions(dn) :
                    CallMapToModules(Document(<<>>, c, d), selected)
          \/ \E first \in CollidingPaths, t1 \in CollisionTags, t2 \in CollisionTags :
                \E second \in CollidingPaths \ {first} :
                    CallMapToModules(CollisionDoc(first, second, t1, t2), selected)
    /\ UNCHANGED <<path, method, functionName, inferredTag, schema, endpoint, otherVars>>

Next == MapToModules

Spec == Init /\ [][Next]_vars

-----------------------------------------------------------------------------
(* Vocabulary of the properties *)

Called == modules # <<>>

\* the operations a document declares, each with its path and method key
DeclaredOps(doc) ==
    IF doc.paths = <<>> THEN {}
    ELSE UNION { { [path |-> doc.paths[1][i].key,
                    key  |-> doc.paths[1][i].value[j].key,
                    operation |-> doc.paths[1][i].value[j].value] :
                    j \in 1..Len(doc.paths[1][i].value) } :
                 i \in 1..Len(doc.paths[1]) }

\* the endpoint of a declared operation is a member of module m
MemberOf(d, m) ==
    \E i \in 1..Len(m.endpoints) :
        /\ m.endpoints[i].path = d.path
        /\ m.endpoints[i].method = toUpperCase(d.key)

DeclaredTagsOf(d) ==
    IF d.operation.tags = <<>> THEN {} ELSE Range(d.operation.tags[1])

\* the first non-empty '/'-separated segment of p, as the stretch between
\* the first character that is not '/' and the next '/'; <<>> if none
FirstSegment(p) ==
    IF \A i \in 1..Len(p) : p[i] = "/" THEN <<>>
    ELSE LET a == CHOOSE i \in 1..Len(p) :
                     p[i] # "/" /\ \A j \in 1..(i - 1) : p[j] = "/"
             b == CHOOSE i \in a..Len(p) :
                     /\ \A j \in a..i : p[j] # "/"
                     /\ (i = Len(p) \/ p[i + 1] = "/")
         IN  SubSeq(p, a, b)

NotBrace(c) == c \notin {"{", "}"}

\* the inferred tag as the specification words it
InferredTagOf(p) ==
    LET seg == SelectSeq(FirstSegment(p), NotBrace)
    IN  IF FirstSegment(p) = <<>> THEN Default
        ELSE IF seg = <<>> THEN <<>>
        ELSE <<CharToUpper(Head(seg))>> \o Tail(seg)

EffectiveTagsOf(d) ==
    IF DeclaredTagsOf(d) # {} THEN DeclaredTagsOf(d) ELSE {InferredTagOf(d.path)}

\* the modules of ms whose tag is in the list f, in the order of ms
ModulesWithTagIn(ms, f) ==
    LET Selected(m) == \E i \in 1..Len(f) : f[i] = m.tag
    IN  SelectSeq(ms, Selected)

\* the modules of an unfiltered run on the document of the last call
Unfiltered == mapToModules(<<>>, api[1], <<>>).modules

-----------------------------------------------------------------------------
(* Properties of module grouping, under Spec *)

\* C1: the modules produced with a tag filter F are exactly the modules of
\* the unfiltered run on the same document whose tag is in F, in the same
\* order and with the same endpoints and referenced schemas, and an
\* operation none of whose effective tags is in F is a member of no module.
FilterLaw ==
    (Called /\ selectedTags # <<>>) =>
        /\ modules[1] = ModulesWithTagIn(Unfiltered, selectedTags[1])
        /\ \A d \in DeclaredOps(api[1]) :
              (EffectiveTagsOf(d) \cap Range(selectedTags[1]) = {}) =>
                  \A i \in 1..Len(modules[1]) : ~MemberOf(d, modules[1][i])

\* a filtered run that kept a module and dropped another one
FilterLawWitness ==
    /\ Called /\ selectedTags # <<>>
    /\ Len(modules[1]) >= 1
    /\ Len(Unfiltered) > Len(modules[1])
    /\ \E d \in DeclaredOps(api[1]) :
          \A i \in 1..Len(modules[1]) : ~MemberOf(d, modules[1][i])

\* C2: without a filter, an operation that declares tags is a member of the
\* module of every tag it declares, with the same endpoint record in each,
\* and of no other module.
FanOut ==
    (Called /\ selectedTags = <<>>) =>
        \A d \in DeclaredOps(api[1]) :
            DeclaredTagsOf(d) # {} =>
                /\ \A t \in DeclaredTagsOf(d) :
                      \E i \in 1..Len(modules[1]) :
                          /\ modules[1][i].tag = t
                          /\ \E k \in 1..Len(modules[1][i].endpoints) :
                                modules[1][i].endpoints[k] =
                                    mapEndpoint(d.path, toUpperCase(d.key), d.operation)
                /\ \A i \in 1..Len(modules[1]) :
                      MemberOf(d, modules[1][i]) =>
                          modules[1][i].tag \in DeclaredTagsOf(d)

\* an unfiltered run on an operation with two different tags, next to a
\* module the operation is not a member of
FanOutWitness ==
    /\ Called /\ selectedTags = <<>>
    /\ \E d \in DeclaredOps(api[1]) :
          /\ Cardinality(DeclaredTagsOf(d)) = 2
          /\ \E i \in 1..Len(modules[1]) : ~MemberOf(d, modules[1][i])

Products == <<"P","r","o","d","u","c","t","s">>

StripArraySuffixes(name) ==
    LET n == Len(name)
        \* the number of trailing "[]" pairs
        k == CHOOSE c \in 0..(n \div 2) :
                /\ \A i \in 1..c : name[n - 2*i + 1] = "[" /\ name[n - 2*i + 2] = "]"
                /\ (2*c + 2 > n \/ ~(name[n - 2*c - 1] = "[" /\ name[n - 2*c] = "]"))
    IN  SubSeq(name, 1, n - 2*k)

\* the request-body and response type names an endpoint records
TypeNamesOf(e) ==
    (IF e.requestBody # <<>> THEN {e.requestBody[1].schema} ELSE {})
        \cup { e.responses[i].schema[1] :
                 i \in { j \in 1..Len(e.responses) : e.responses[j].schema # <<>> } }

\* C10: a module's referencedSchemas holds the catalog record of T for
\* every request-body or response type name T, T[], T[][], ... of its
\* endpoints with T in the catalog, holds nothing else, and holds no record
\* twice.
ReferencedSchemas ==
    Called =>
        \A i \in 1..Len(modules[1]) :
            LET m == modules[1][i]
                bases == { StripArraySuffixes(t) :
                             t \in UNION { TypeNamesOf(m.endpoints[k]) :
                                             k \in 1..Len(m.endpoints) } }
            IN  /\ \A b \in bases :
                      MapHas(schemas, b) =>
                          \E j \in 1..Len(m.schemas) : m.schemas[j] = MapGet(schemas, b)
                /\ \A j \in 1..Len(m.schemas) :
                      /\ m.schemas[j].name \in bases
                      /\ MapHas(schemas, m.schemas[j].name)
                      /\ m.schemas[j] = MapGet(schemas, m.schemas[j].name)
                /\ \A j, k \in 1..Len(m.schemas) :
                      m.schemas[j] = m.schemas[k] => j = k

-----------------------------------------------------------------------------
(* Properties of the call name, under SpecName *)

\* camelCase as the specification words it: reading left to right, a '-' or
\* '_' that is followed by a character and was not itself taken by the
\* separator before it is dropped, and the character after it upper-cased
CamelOf(str) ==
    LET n == Len(str)
        Starts[i \in 0..n] ==
            IF i = 0 THEN FALSE
            ELSE str[i] \in {"-", "_"} /\ i < n /\ ~Starts[i - 1]
        Piece(i) == IF Starts[i] THEN <<>>
                    ELSE IF Starts[i - 1] THEN <<CharToUpper(str[i])>>
                    ELSE <<str[i]>>
    IN  join([i \in 1..n |-> Piece(i)])

CapitalOf(str) ==
    IF str = <<>> THEN <<>> ELSE <<CharToUpper(Head(str))>> \o Tail(str)

\* the token of one segment
TokenOf(seg) ==
    IF Head(seg) = "{" /\ seg[Len(seg)] = "}"
    THEN <<"B", "y">> \o CapitalOf(CamelOf(SubSeq(seg, 2, Len(seg) - 1)))
    ELSE CamelOf(seg)

\* the capitalized tokens of the segments of p from position i on
RECURSIVE TokensFrom(_, _)
TokensFrom(p, i) ==
    IF i > Len(p) THEN <<>>
    ELSE IF p[i] = "/" THEN TokensFrom(p, i + 1)
    ELSE LET b == CHOOSE k \in i..Len(p) :
                     /\ \A j \in i..k : p[j] # "/"
                     /\ (k = Len(p) \/ p[k + 1] = "/")
         IN  CapitalOf(TokenOf(SubSeq(p, i, b))) \o TokensFrom(p, b + 1)

CallNameOf(p, m) == toLowerCase(m) \o TokensFrom(p, 1)

GetOrderHistoryById ==
    <<"g","e","t","O","r","d","e","r","H","i","s","t","o","r","y","B","y","I","d">>

\* C5: the call name is the lower-cased method followed by one capitalized
\* token per non-empty segment in path order, By + capitalized camelCase
\* for a parameter segment and camelCase for a literal one;
\* GET /order-history/{id} gives getOrderHistoryById.
CallNameTokenizer ==
    functionName # <<>> =>
        /\ functionName[1] = CallNameOf(path, method)
        /\ (path = OrderHistoryPath /\ method = GET =>
                functionName[1] = GetOrderHistoryById)

CallNameTokenizerWitness ==
    /\ functionName # <<>>
    /\ path = OrderHistoryPath
    /\ method = GET

IdentifierChars == Range(LowerLetters) \cup Range(UpperLetters) \cup Digits \cup {"_", "$"}

\* C6: every call name is non-empty and a valid identifier.
CallNameIsIdentifier ==
    functionName # <<>> =>
        /\ functionName[1] # <<>>
        /\ Range(functionName[1]) \subseteq IdentifierChars
        /\ functionName[1][1] \notin Digits

GetOrdersByUserId ==
    <<"g","e","t","O","r","d","e","r","s","B","y","U","s","e","r","I","d">>

\* C7: GET /users/{id}/orders is named getOrdersByUserId.
ReadmeNaming ==
    (functionName # <<>> /\ path = UsersOrdersPath /\ method = GET) =>
        functionName[1] = GetOrdersByUserId

-----------------------------------------------------------------------------
(* Properties of type resolution, under SpecType *)

\* the part of str after its last '/', the whole of str if it has none
LastSegment(str) ==
    LET slashes == { i \in 1..Len(str) : str[i] = "/" }
        from == IF slashes = {} THEN 1
                ELSE (CHOOSE i \in slashes : \A j \in slashes : j <= i) + 1
    IN  SubSeq(str, from, Len(str))

\* the type names recorded for the request body and the response
BodyType == endpoint[1].requestBody[1].schema

ResponseType == endpoint[1].responses[1].schema[1]

\* the type name the mapper records for a request body with schema n
RecordedBodyType(n) ==
    mapEndpoint(path, method, OperationWith(n)).requestBody[1].schema

IsArrayWithItems(n) == n.type = <<"array">> /\ n.items # <<>>

ArrayOf(n) == [ref |-> <<>>, type |-> <<"array">>, items |-> <<n>>]

\* C8 as stated: a reference node resolves to the final segment of its
\* target; a node with type array and items resolves to the name of its
\* items followed by []; an array of arrays of a reference to T resolves to
\* T[][].
TypeResolution ==
    endpoint # <<>> =>
        /\ schema.ref # <<>> =>
              /\ BodyType = LastSegment(schema.ref[1])
              /\ ResponseType = LastSegment(schema.ref[1])
        /\ IsArrayWithItems(schema) =>
              /\ BodyType = RecordedBodyType(schema.items[1]) \o <<"[", "]">>
              /\ ResponseType = BodyType

\* C8 as amended: a reference node resolves to the final segment of its
\* target, or to any when that segment is empty; a node without a reference
\* that has type array and items resolves to the name of its items followed
\* by []; an array of arrays of a reference to T resolves to T[][].
TypeResolutionAmended ==
    endpoint # <<>> =>
        /\ schema.ref # <<>> =>
              /\ BodyType = IF LastSegment(schema.ref[1]) = <<>> THEN <<"a","n","y">>
                            ELSE LastSegment(schema.ref[1])
              /\ ResponseType = BodyType
        /\ (schema.ref = <<>> /\ IsArrayWithItems(schema)) =>
              /\ BodyType = RecordedBodyType(schema.items[1]) \o <<"[", "]">>
              /\ ResponseType = BodyType
        /\ schema = ArrayOf(ArrayOf([ref |-> <<RefT>>, type |-> <<>>, items |-> <<>>])) =>
              /\ BodyType = <<"T", "[", "]", "[", "]">>
              /\ ResponseType = BodyType

TypeResolutionWitness ==
    /\ endpoint # <<>>
    /\ schema = ArrayOf(ArrayOf([ref |-> <<RefT>>, type |-> <<>>, items |-> <<>>]))

\* C9: the type name recorded for a parameter with schema s equals the type
\* name recorded for a request body or a response with schema s.
SingleTypeName ==
    endpoint # <<>> =>
        /\ endpoint[1].parameters[1].type = BodyType
        /\ endpoint[1].parameters[1].type = ResponseType

-----------------------------------------------------------------------------
(* Specification of a reused mapper: mapToModules is called any number of  *)
(* times on one SwaggerMapper; the schemas field is set in the constructor *)
(* and never cleared.                                                      *)

RefNode(r) == [ref |-> <<r>>, type |-> <<>>, items |-> <<>>]

\* operation.responses of the documents passed to a reused mapper: absent,
\* empty, or a 200 response without content or with a reference to T or U
ReuseResponses == ResponsesOptions({RefNode(RefT), RefNode(RefU)}, 1)

ReuseFilters == {<<>>, << <<TagA>> >>}

MapToModulesAgain ==
    /\ \E selected \in ReuseFilters, t \in SchemaOpTags, r \in ReuseResponses,
          c \in ComponentsOptions, d \in DefinitionsOptions :
            CallMapToModules(SchemaDoc(Operation(t, <<>>, r), c, d), selected)
    /\ UNCHANGED <<path, method, functionName, inferredTag, schema, endpoint, otherVars>>

NextReuse == MapToModulesAgain

SpecReuse == Init /\ [][NextReuse]_vars

\* the schema names a document defines in components.schemas or definitions
DefinedNames(doc) ==
    (IF doc.components # <<>> /\ doc.components[1].schemas # <<>>
     THEN Range(Keys(doc.components[1].schemas[1])) ELSE {})
        \cup (IF doc.definitions # <<>> THEN Range(Keys(doc.definitions[1])) ELSE {})

\* C11: after any sequence of mapToModules calls on one mapper, the catalog
\* and the referenced schemas of the modules of the last call hold only
\* schemas that the document of the last call defines.
NoStaleSchemas ==
    Called =>
        /\ \A i \in 1..Len(schemas) : schemas[i].key \in DefinedNames(api[1])
        /\ \A i \in 1..Len(modules[1]) :
              \A j \in 1..Len(modules[1][i].schemas) :
                  modules[1][i].schemas[j].name \in DefinedNames(api[1])

-----------------------------------------------------------------------------
(* Properties of the order of endpoints and modules, under Spec *)

\* the operations of the path items paths, in the order of their declaration
RECURSIVE DeclaredSeq(_)
DeclaredSeq(paths) ==
    IF paths = <<>> THEN <<>>
    ELSE [j \in 1..Len(Head(paths).value) |->
            [ path      |-> Head(paths).key,
              key       |-> Head(paths).value[j].key,
              operation |-> Head(paths).value[j].value ]]
         \o DeclaredSeq(Tail(paths))

\* the position at which the document declares the operation of endpoint e
DeclaredPosition(doc, e) ==
    LET ds == DeclaredSeq(doc.paths[1])
    IN  CHOOSE i \in 1..Len(ds) :
            ds[i].path = e.path /\ toUpperCase(ds[i].key) = e.method

\* the tags under which endpoint e is grouped, in order
EffectiveTagSeq(e) ==
    IF Len(e.tags) > 0 THEN e.tags ELSE <<InferredTagOf(e.path)>>

\* where the tag of module m is first met in the document: the position of
\* the first declared operation among its endpoints, and the index of the
\* tag in the tag list of that operation
FirstMet(doc, m) ==
    LET pos == CHOOSE p \in { DeclaredPosition(doc, m.endpoints[k]) :
                                k \in 1..Len(m.endpoints) } :
                   \A k \in 1..Len(m.endpoints) :
                       p <= DeclaredPosition(doc, m.endpoints[k])
        e   == CHOOSE x \in Range(m.endpoints) : DeclaredPosition(doc, x) = pos
        ts  == EffectiveTagSeq(e)
        idx == CHOOSE i \in 1..Len(ts) :
                   ts[i] = m.tag /\ \A j \in 1..(i - 1) : ts[j] # m.tag
    IN  <<pos, idx>>

Before(a, b) == a[1] < b[1] \/ (a[1] = b[1] /\ a[2] < b[2])

\* C12: the endpoints of every module are in the order in which the
\* document declares their operations (path by path, and within a path item
\* in the order of the declared methods), and the modules are in the order
\* in which their tags are first met.
DeclarationOrder ==
    Called =>
        /\ \A i \in 1..Len(modules[1]) :
              \A a, b \in 1..Len(modules[1][i].endpoints) :
                  a < b => DeclaredPosition(api[1], modules[1][i].endpoints[a])
                               < DeclaredPosition(api[1], modules[1][i].endpoints[b])
        /\ \A i, j \in 1..Len(modules[1]) :
              i < j => Before(FirstMet(api[1], modules[1][i]),
                              FirstMet(api[1], modules[1][j]))

\* the operations of a document that are grouped under the tag of module m
\* and pass the filter, as positions of DeclaredSeq
GroupedUnder(doc, m) ==
    LET ds == DeclaredSeq(doc.paths[1])
    IN  { i \in 1..Len(ds) : m.tag \in EffectiveTagsOf(ds[i]) }

\* C13: a module holds at most one endpoint of each call name, and of the
\* operations grouped under its tag that share a call name it holds the one
\* registered last.
LastRegisteredWins ==
    Called =>
        \A i \in 1..Len(modules[1]) :
            LET m  == modules[1][i]
                ds == DeclaredSeq(api[1].paths[1])
                Name(k) == pathToFunctionName(ds[k].path, toUpperCase(ds[k].key))
            IN  /\ \A a, b \in 1..Len(m.endpoints) :
                      m.endpoints[a].functionName = m.endpoints[b].functionName => a = b
                /\ \A k \in GroupedUnder(api[1], m) :
                      MemberOf(ds[k], m) <=>
                          ~\E l \in GroupedUnder(api[1], m) :
                              l > k /\ Name(l) = Name(k)

-----------------------------------------------------------------------------
(* Properties of the schema catalog, under Spec *)

\* the raw definition a document gives for a name; definitions is scanned
\* after components.schemas
RawOf(doc, name) ==
    IF doc.definitions # <<>> /\ HasKey(doc.definitions[1], name)
    THEN Lookup(doc.definitions[1], name)
    ELSE Lookup(doc.components[1].schemas[1], name)

\* C14: after mapToModules on a fresh mapper the catalog has exactly one
\* record per name defined in components.schemas or definitions, the name of
\* each record is its key, a definition without properties has the empty
\* properties mapping and a definition without required has the empty
\* required set.
CatalogConstruction ==
    Called =>
        /\ { schemas[i].key : i \in 1..Len(schemas) } = DefinedNames(api[1])
        /\ \A i, j \in 1..Len(schemas) : schemas[i].key = schemas[j].key => i = j
        /\ \A i \in 1..Len(schemas) :
              LET rec == schemas[i].value
                  raw == RawOf(api[1], schemas[i].key)
              IN  /\ rec.name = schemas[i].key
                  /\ raw.properties = <<>> => rec.properties = {}
                  /\ raw.required = <<>> => rec.required = << <<>> >>

-----------------------------------------------------------------------------
(* Specification of response mapping: a responses object is drawn in the   *)
(* initial state and mapEndpoint is applied to an operation that declares  *)
(* it.                                                                     *)

ResponseKeys == {"200", "404", "default"}

TextPlain == "text/plain"

\* the sequences over S without repetition
Orders(S) ==
    { ks \in SeqsUpTo(S, Cardinality(S)) :
        \A i, j \in 1..Len(ks) : ks[i] = ks[j] => i = j }

\* a media type object: without a schema, or with a reference as its schema
MediaOptions(ref) == {[schema |-> <<>>], [schema |-> <<RefNode(ref)>>]}

\* response.content: absent, or an object with entries for application/json
\* and text/plain in either order
ContentOptions ==
    {<<>>} \cup
    UNION { { << [i \in 1..Len(ks) |-> [key |-> ks[i], value |-> v[ks[i]]]] >> :
                v \in { f \in [{ApplicationJson, TextPlain} ->
                                  MediaOptions(RefT) \cup MediaOptions(RefU)] :
                          /\ f[ApplicationJson] \in MediaOptions(RefT)
                          /\ f[TextPlain] \in MediaOptions(RefU) } } :
            ks \in Orders({ApplicationJson, TextPlain}) }

\* the responses objects that declare the keys of a key order
ResponseObjects(keyOrders) ==
    UNION { { [i \in 1..Len(ks) |-> [key |-> ks[i], value |-> [content |-> v[i]]]] :
                v \in [1..Len(ks) -> ContentOptions] } : ks \in keyOrders }

InitResponses ==
    /\ path = UsersIdPath
    /\ method = GET
    /\ functionName = <<>>
    /\ inferredTag = <<>>
    /\ schema = NoSchema
    /\ endpoint = <<>>
    /\ MapperIdle
    /\ TagIdle
    /\ responsesArg \in {<<>>} \cup { <<r>> : r \in ResponseObjects(Orders(ResponseKeys)) }
    /\ GeneratorIdle

CallMapEndpointOnResponses ==
    /\ endpoint = <<>>
    /\ endpoint' = <<mapEndpoint(path, method, Operation(<<>>, <<>>, responsesArg))>>
    /\ UNCHANGED <<path, method, functionName, inferredTag, schema, mapperVars, otherVars>>

NextResponses == CallMapEndpointOnResponses

SpecResponses == InitResponses /\ [][NextResponses]_vars

\* the schemaRef of one declared response: that of the application/json
\* entry of its content if there is one, of the first entry otherwise
SchemaRefOf(response) ==
    IF response.content = <<>> \/ response.content[1] = <<>> THEN <<>>
    ELSE LET entries == response.content[1]
             json    == { i \in 1..Len(entries) : entries[i].key = ApplicationJson }
             chosen  == IF json # {} THEN entries[CHOOSE i \in json : TRUE].value
                        ELSE entries[1].value
         IN  IF chosen.schema = <<>> THEN <<>>
             ELSE <<getSchemaName(chosen.schema[1])>>

\* C15: the response records are one per declared response, in the order
\* of the declaration; statusCode is the key of the response and schemaRef
\* is resolved from the application/json content entry, or from the first
\* content entry if there is none, and is absent without content or schema.
ResponseRecords ==
    (endpoint # <<>> /\ responsesArg # <<>>) =>
        LET recs     == endpoint[1].responses
            declared == responsesArg[1]
        IN  /\ Len(recs) = Len(declared)
            /\ \A i \in 1..Len(declared) :
                  /\ recs[i].statusCode = declared[i].key
                  /\ recs[i].schema = SchemaRefOf(declared[i].value)

-----------------------------------------------------------------------------
(* Specification of module naming: a tag is drawn in the initial state and *)
(* tagToModuleName is applied to it.                                       *)

\* longest generated tag
MaxTagLen == 3

TagChars == {" ", "-", "_", "a", "B", "1", "."}

UserManagementTag ==
    <<"U","s","e","r"," ","M","a","n","a","g","e","m","e","n","t">>

TagStrings(n) == SeqsUpTo(TagChars, n) \cup {UserManagementTag}

InitTag ==
    /\ path = RootPath
    /\ method = GET
    /\ functionName = <<>>
    /\ inferredTag = <<>>
    /\ schema = NoSchema
    /\ endpoint = <<>>
    /\ MapperIdle
    /\ tagArg \in { <<t>> : t \in TagStrings(MaxTagLen) }
    /\ moduleName = <<>>
    /\ responsesArg = <<>>
    /\ GeneratorIdle

CallTagToModuleName ==
    /\ tagArg # <<>>
    /\ moduleName = <<>>
    /\ moduleName' = <<tagToModuleName(tagArg[1])>>
    /\ UNCHANGED <<path, method, functionName, inferredTag, schema, endpoint,
                   mapperVars, tagArg, responsesArg, generatorVars>>

NextTag == CallTagToModuleName

SpecTag == InitTag /\ [][NextTag]_vars

\* the module name as the specification words it: the separators are
\* dropped and a character that starts a word is upper-cased
ModuleNameOf(str) ==
    LET Separator(i) == str[i] \in {" ", "-", "_"}
        Piece(i) == IF Separator(i) THEN <<>>
                    ELSE IF i = 1 \/ Separator(i - 1) THEN <<CharToUpper(str[i])>>
                    ELSE <<str[i]>>
    IN  join([i \in 1..Len(str) |-> Piece(i)])

UserManagement ==
    <<"U","s","e","r","M","a","n","a","g","e","m","e","n","t">>

\* a non-empty identifier that starts with an upper-case letter
IsPascalIdentifier(str) ==
    /\ str # <<>>
    /\ Range(str) \subseteq IdentifierChars
    /\ str[1] \in Range(UpperLetters)

\* C16: the module name is the tag split on runs of whitespace, '-' and '_'
\* with the first character of each word upper-cased and the words
\* concatenated, 'User Management' gives UserManagement, and the module
\* name of every tag is an identifier-safe PascalCase name.
ModuleNaming ==
    moduleName # <<>> =>
        /\ moduleName[1] = ModuleNameOf(tagArg[1])
        /\ (tagArg[1] = UserManagementTag => moduleName[1] = UserManagement)
        /\ IsPascalIdentifier(moduleName[1])

-----------------------------------------------------------------------------
(* TemplateEngine and CodeGenerator.  A written file is a record of its    *)
(* folder below the output directory (<<>> is the output directory         *)
(* itself), its name and its content; the content of a generated file is   *)
(* kept as what it is derived from, not as text.  Formatting with Prettier *)
(* falls back to the unformatted code and is left out, and the file system *)
(* is taken to accept every write.                                         *)

\* the type LibraryChoice
Libraries == {"zustand", "redux-toolkit", "axios-hooks", "fetch-api"}

\* a library value outside LibraryChoice
UnknownLibraryName == "mobx"

\* the type LanguageChoice
Languages == {"typescript", "javascript"}

\* TemplateEngine.loadTemplates: the libraries with a compiled template
\* after the call
loadTemplates(registered) == registered \cup Libraries

\* the Error thrown by TemplateEngine.generateModule
TemplateNotFound(library) ==
    [message |-> <<"Template not found for library: ", library>>]

\* an error raised by the evaluation of a template on a module
TemplateEvaluationError(module) ==
    [message |-> <<"template evaluation failed: ", module.tag>>]

\* TemplateEngine.generateModule without the check of the template
TemplateEngineGenerateModuleUnchecked(registered, module, library, language, renders) ==
    IF ~renders
    THEN [error |-> <<TemplateEvaluationError(module)>>, code |-> <<>>]
    ELSE [error |-> <<>>,
          code  |-> <<[ kind       |-> "module",
                        tag        |-> module.tag,
                        library    |-> library,
                        javascript |-> language = "javascript" ]>>]

\* TemplateEngine.generateModule(module, library, language): the error
\* thrown or the code returned.  renders tells whether the template
\* evaluates the module without raising; javascript records that
\* convertToJavaScript has been applied to the code.
TemplateEngineGenerateModule(registered, module, library, language, renders) ==
    IF library \notin registered
    THEN [error |-> <<TemplateNotFound(library)>>, code |-> <<>>]
    ELSE IF ~renders
    THEN [error |-> <<TemplateEvaluationError(module)>>, code |-> <<>>]
    ELSE [error |-> <<>>,
          code  |-> <<[ kind       |-> "module",
                        tag        |-> module.tag,
                        library    |-> library,
                        javascript |-> language = "javascript" ]>>]

getFileExtension(language) ==
    IF language = "typescript" THEN <<".","t","s">> ELSE <<".","j","s">>

\* str.charAt(0).toLowerCase() + str.slice(1)
lowerFirst(str) ==
    (IF Len(str) > 0 THEN <<CharToLower(str[1])>> ELSE <<>>) \o SliceFrom(str, 1)

\* getModuleFileName on a file system that does not tell upper case from
\* lower case in a file name
getModuleFileNameIgnoringCase(name, library, language) ==
    LET ext == getFileExtension(language)
    IN  toLowerCase(CASE library = "zustand" ->
                             <<"u","s","e">> \o name \o <<"S","t","o","r","e">> \o ext
                      [] library = "redux-toolkit" ->
                             lowerFirst(name) \o <<"S","l","i","c","e">> \o ext
                      [] library \in {"axios-hooks", "fetch-api"} ->
                             <<"u","s","e">> \o name \o ext
                      [] OTHER -> name \o ext)

\* TemplateEngine.getModuleFileName(moduleName, library, language)
getModuleFileName(name, library, language) ==
    LET ext == getFileExtension(language)
    IN  CASE library = "zustand" ->
                <<"u","s","e">> \o name \o <<"S","t","o","r","e">> \o ext
          [] library = "redux-toolkit" ->
                lowerFirst(name) \o <<"S","l","i","c","e">> \o ext
          [] library \in {"axios-hooks", "fetch-api"} ->
                <<"u","s","e">> \o name \o ext
          [] OTHER -> name \o ext

\* str.replace(/([a-z])([A-Z])/g, '$1-$2'): matches are found left to right
\* and do not overlap
RECURSIVE hyphenateCaseChange(_)
hyphenateCaseChange(str) ==
    IF Len(str) < 2 THEN str
    ELSE IF str[1] \in Range(LowerLetters) /\ str[2] \in Range(UpperLetters)
         THEN <<str[1], "-", str[2]>> \o hyphenateCaseChange(SubSeq(str, 3, Len(str)))
         ELSE <<str[1]>> \o hyphenateCaseChange(Tail(str))

\* str.replace(/[\s_]+/g, '-'): every maximal run becomes one '-'
RECURSIVE hyphenateRuns(_)
hyphenateRuns(str) ==
    IF str = <<>> THEN <<>>
    ELSE IF Head(str) \in {" ", "_"}
         THEN LET n == CHOOSE k \in 1..Len(str) :
                          /\ \A j \in 1..k : str[j] \in {" ", "_"}
                          /\ (k = Len(str) \/ str[k + 1] \notin {" ", "_"})
              IN  <<"-">> \o hyphenateRuns(SubSeq(str, n + 1, Len(str)))
         ELSE <<Head(str)>> \o hyphenateRuns(Tail(str))

toKebabCase(str) == toLowerCase(hyphenateRuns(hyphenateCaseChange(str)))

\* the output directory, as a folder below itself
OutputDir == <<>>

\* the file CodeGenerator.generateModule writes for a module
ModuleFile(module, library, language, code) ==
    [ folder  |-> toKebabCase(module.moduleName),
      name    |-> getModuleFileName(module.moduleName, library, language),
      content |-> code ]

\* the file generateIndexFile writes: one export per module, and the export
\* of the types for typescript
IndexFile(mods, library, language) ==
    [ folder  |-> OutputDir,
      name    |-> <<"i","n","d","e","x">> \o getFileExtension(language),
      content |-> [ kind    |-> "index",
                    exports |-> [i \in 1..Len(mods) |->
                                    [ folder |-> toKebabCase(mods[i].moduleName),
                                      name   |-> getModuleFileName(mods[i].moduleName,
                                                                   library, language) ]],
                    types   |-> language = "typescript" ] ]

\* the declaration generateTypesFile writes for one entry of the catalog;
\* the type of a property is left out
TypeDeclaration(entry) ==
    [ name       |-> entry.key,
      properties |-> { [ name     |-> p,
                         optional |-> ~(entry.value.required # <<>>
                                         /\ Includes(entry.value.required[1], p)) ] :
                       p \in entry.value.properties } ]

\* the file generateTypesFile writes: one declaration per entry of
\* context.schemas
TypesFile(catalog, language) ==
    [ folder  |-> OutputDir,
      name    |-> <<"t","y","p","e","s">> \o getFileExtension(language),
      content |-> [ kind         |-> "types",
                    declarations |-> [i \in 1..Len(catalog) |->
                                         TypeDeclaration(catalog[i])] ] ]

\* the file generateReadme writes
ReadmeFile(mods, library, language) ==
    [ folder  |-> OutputDir,
      name    |-> <<"R","E","A","D","M","E",".","m","d">>,
      content |-> [ kind     |-> "readme",
                    library  |-> library,
                    language |-> language,
                    modules  |-> [i \in 1..Len(mods) |->
                                     [ moduleName |-> mods[i].moduleName,
                                       endpoints  |-> Len(mods[i].endpoints) ]] ] ]

-----------------------------------------------------------------------------
(* SwaggerParserService: validateVersion and extractTags *)

\* a || b on optional strings: a value is truthy when it is present and not
\* the empty string
Truthy(optStr) == optStr # <<>> /\ optStr[1] # <<>>

\* str.startsWith(prefix)
StartsWith(str, prefix) ==
    Len(str) >= Len(prefix) /\ SubSeq(str, 1, Len(prefix)) = prefix

\* validateVersion(api): the error thrown, if any
validateVersion(doc) ==
    LET version == IF Truthy(doc.openapi) THEN doc.openapi ELSE doc.swagger
    IN  IF ~Truthy(version)
        THEN <<[message |-> <<"Invalid schema: Missing OpenAPI/Swagger version">>]>>
        ELSE IF ~StartsWith(version[1], <<"3", ".">>) /\ ~StartsWith(version[1], <<"2", ".">>)
        THEN <<[message |-> <<"Unsupported OpenAPI/Swagger version: ", version[1]>>]>>
        ELSE <<>>

\* tags.add(tag) for every tag of a list
RECURSIVE AddAll(_, _)
AddAll(elems, arr) ==
    IF arr = <<>> THEN elems ELSE AddAll(SetAdd(elems, Head(arr)), Tail(arr))

\* the method loop of extractTags over one path item, from method index k
RECURSIVE TagsOfPathItem(_, _, _)
TagsOfPathItem(tags, pathItem, k) ==
    IF k > Len(MethodKeys) THEN tags
    ELSE IF HasKey(pathItem, MethodKeys[k])
              /\ Lookup(pathItem, MethodKeys[k]).tags # <<>>
         THEN TagsOfPathItem(AddAll(tags, Lookup(pathItem, MethodKeys[k]).tags[1]),
                             pathItem, k + 1)
         ELSE TagsOfPathItem(tags, pathItem, k + 1)

\* the path loop of extractTags
RECURSIVE TagsOfPaths(_, _)
TagsOfPaths(tags, paths) ==
    IF paths = <<>> THEN tags
    ELSE TagsOfPaths(TagsOfPathItem(tags, Head(paths).value, 1), Tail(paths))

\* the characters of the generated strings in the order of their UTF-16
\* code units
CodeUnitOrder ==
    <<" ", "-", ".", "/", "0", "1", "2", "3", "4", "5", "6", "7", "8", "9">>
        \o UpperLetters \o <<"_">> \o LowerLetters \o <<"{", "}">>

CodeUnit(c) == CHOOSE i \in 1..Len(CodeUnitOrder) : CodeUnitOrder[i] = c

\* a < b in the order of Array.prototype.sort without a comparator
RECURSIVE StringLess(_, _)
StringLess(a, b) ==
    IF b = <<>> THEN FALSE
    ELSE IF a = <<>> THEN TRUE
    ELSE IF Head(a) = Head(b) THEN StringLess(Tail(a), Tail(b))
    ELSE CodeUnit(Head(a)) < CodeUnit(Head(b))

\* Array.from(set).sort() for different strings
RECURSIVE sortStrings(_)
sortStrings(arr) ==
    IF arr = <<>> THEN <<>>
    ELSE LET i == CHOOSE a \in 1..Len(arr) :
                     \A b \in 1..Len(arr) : ~StringLess(arr[b], arr[a])
         IN  <<arr[i]>> \o sortStrings(SubSeq(arr, 1, i - 1)
                                           \o SubSeq(arr, i + 1, Len(arr)))

extractTags(doc) ==
    IF doc.paths = <<>> THEN <<>>
    ELSE sortStrings(TagsOfPaths(<<>>, doc.paths[1]))

-----------------------------------------------------------------------------
(* Inputs of initCommand and of CodeGenerator.generate *)

\* a schema source, as what the calls of parseSchema find of it: it is a URL
\* or a path, it can be fetched or exists, SwaggerParser.validate accepts
\* it, SwaggerParser.dereference accepts it.  validate dereferences, so
\* that it accepts only what dereference accepts.
SchemaSources ==
    { src \in [isUrl : BOOLEAN, reachable : BOOLEAN, validates : BOOLEAN,
               dereferences : BOOLEAN] :
        /\ src.validates => src.dereferences
        /\ src.dereferences => src.reachable }

\* the answers of runWizard; outputDirectory is left out
WizardAnswers ==
    [library : Libraries, language : Languages, selectionMode : {"all", "selective"},
     schemaSource : SchemaSources]

\* a definition with properties and without required
RawSchemaOptional == [properties |-> <<{"id"}>>, required |-> <<>>]

JsonResponse(ref) ==
    << << [key |-> "200", value |-> [content |-> JsonContent(RefNode(ref))]] >> >>

\* GET /products, untagged or tagged A, without a response or answering T
FirstOps ==
    { Operation(t, <<>>, r) :
        t \in {<<>>, << <<TagA>> >>}, r \in {<<>>, JsonResponse(RefT)} }

\* POST /, tagged A or Products, without a response or answering U
SecondOps ==
    { Operation(t, <<>>, r) :
        t \in {<< <<TagA>> >>, << <<TagProducts>> >>}, r \in {<<>>, JsonResponse(RefU)} }

\* api.paths of the documents initCommand is run on: absent, empty, one
\* operation or two
PipelinePaths ==
    {<<>>, << <<>> >>}
        \cup { <<BuildPaths(<< <<ProductsPath, MethodKeys[1]>> >>, <<a>>)>> : a \in FirstOps }
        \cup { <<BuildPaths(<< <<ProductsPath, MethodKeys[1]>>, <<RootPath, MethodKeys[2]>> >>,
                            <<a, b>>)>> : a \in FirstOps, b \in SecondOps }

\* the documents without schemas, and those that define T in
\* components.schemas and U in definitions
PipelineDocs ==
    { Document(p, <<>>, <<>>) : p \in PipelinePaths }
        \cup { Document(p, <<[schemas |-> << <<[key |-> SchemaT, value |-> RawSchema]>> >>]>>,
                        << <<[key |-> SchemaU, value |-> RawSchemaOptional]>> >>) :
                 p \in PipelinePaths }

\* the version fields of a parsed document: openapi 3.0.0, swagger 2.0,
\* neither, or openapi 1.2
VersionFields ==
    { [openapi |-> << <<"3",".","0",".","0">> >>, swagger |-> <<>>],
      [openapi |-> <<>>, swagger |-> << <<"2",".","0">> >>],
      [openapi |-> <<>>, swagger |-> <<>>],
      [openapi |-> << <<"1",".","2">> >>, swagger |-> <<>>] }

\* a document with its version fields
Versioned(doc, v) ==
    [ paths |-> doc.paths, components |-> doc.components,
      definitions |-> doc.definitions, openapi |-> v.openapi, swagger |-> v.swagger ]

\* the tags 'a b', 'a-b' and 'ab': the module names are AB, AB and Ab, and
\* the folder of each is ab
TagSpaced == <<"a", " ", "b">>

TagHyphened == <<"a", "-", "b">>

TagJoined == <<"a", "b">>

FolderCollisionTags == {TagA, TagSpaced, TagHyphened, TagJoined}

\* GET /products and POST / under one tag each, and GET /products under
\* 'a b' and 'ab' with POST / under 'a-b'
FolderCollisionDocs ==
    { Document(<<BuildPaths(<< <<ProductsPath, MethodKeys[1]>>, <<RootPath, MethodKeys[2]>> >>,
                            <<Operation(<< t1 >>, <<>>, <<>>),
                              Operation(<< <<t2>> >>, <<>>, <<>>)>>)>>, <<>>, <<>>) :
        t1 \in { <<t>> : t \in FolderCollisionTags } \cup {<<TagSpaced, TagJoined>>},
        t2 \in FolderCollisionTags }

\* the non-empty selections of the checkbox of runTagSelection, in the
\* order of the choices
Selections(availableTags) ==
    { SelectSeq(availableTags, LAMBDA t : t \in S) :
        S \in (SUBSET Range(availableTags)) \ {{}} }

-----------------------------------------------------------------------------
(* The steps of initCommand and of CodeGenerator.generate.  pc is the      *)
(* position of the running function: wizard, parse, validate, tags and map *)
(* in initCommand; constructed and initialized for a CodeGenerator before  *)
(* generate; modules, types and readme inside generate; generated after    *)
(* generate has returned, done after initCommand has returned and failed   *)
(* after an error has been thrown out of the running function.             *)

pureVars ==
    <<path, method, functionName, inferredTag, schema, endpoint, tagVars, responsesArg,
      textVars>>

\* none of the naming and mapping functions has been called on its own
PureIdle ==
    /\ path = RootPath
    /\ method = GET
    /\ functionName = <<>>
    /\ inferredTag = <<>>
    /\ schema = NoSchema
    /\ endpoint = <<>>
    /\ TagIdle
    /\ responsesArg = <<>>
    /\ TextIdle

\* the Error parseSchema throws
ParseFailure == [message |-> <<"Failed to parse Swagger schema: ">>]

\* the Error the catch of parseSchema makes of an Error with a message
ParseFailureOf(message) == [message |-> ParseFailure.message \o message]

\* the Error the catch of parseSchema makes of an error of axios
FetchFailure == [message |-> <<"Failed to fetch schema from URL: ", "Network Error">>]

\* parseSchema without the lenient mode
parseSchemaStrictOnly(source) ==
    IF source.isUrl /\ ~source.reachable
    THEN [error |-> <<FetchFailure>>, mode |-> "none"]
    ELSE IF ~source.reachable
    THEN [error |-> <<ParseFailureOf(<<"File not found: ">>)>>, mode |-> "none"]
    ELSE IF source.validates /\ source.dereferences
    THEN [error |-> <<>>, mode |-> "strict"]
    ELSE [error |-> <<ParseFailureOf(<<"Schema is too invalid to process: ">>)>>,
          mode  |-> "none"]

\* parserService.parseSchema(source): the error thrown, if any, and the
\* mode in which the document was processed
parseSchema(source) ==
    IF source.isUrl /\ ~source.reachable
    THEN [error |-> <<FetchFailure>>, mode |-> "none"]
    ELSE IF ~source.reachable
    THEN [error |-> <<ParseFailureOf(<<"File not found: ">>)>>, mode |-> "none"]
    ELSE IF source.validates /\ source.dereferences
    THEN [error |-> <<>>, mode |-> "strict"]
    ELSE IF source.dereferences
    THEN [error |-> <<>>, mode |-> "lenient"]
    ELSE [error |-> <<ParseFailureOf(<<"Schema is too invalid to process: ">>)>>,
          mode  |-> "none"]

\* where initCommand goes after the mapping of a document that yields
\* modules without the early return
AfterMappingAlwaysGenerate(mods) == "constructed"

\* where initCommand goes after the mapping: it returns when there is no
\* module, and constructs a CodeGenerator otherwise
AfterMapping(mods) == IF Len(mods) = 0 THEN "done" ELSE "constructed"

RunWizard ==
    /\ pc = "wizard"
    /\ \E a \in WizardAnswers : answers' = <<a>>
    /\ pc' = "parse"
    /\ UNCHANGED <<pureVars, mapperVars, templates, dirs, writes, error, cursor,
                   dependencyCheck>>

\* api = await parserService.parseSchema(initialAnswers.schemaSource): the
\* dereferenced document of the source, or an Error
ParseSchema ==
    /\ pc = "parse"
    /\ \E r \in {parseSchema(answers[1].schemaSource)} :
          IF r.error = <<>>
          THEN /\ \E doc \in PipelineDocs \cup FolderCollisionDocs, v \in VersionFields :
                      api' = <<Versioned(doc, v)>>
               /\ pc' = "validate"
               /\ UNCHANGED error
          ELSE /\ error' = r.error
               /\ pc' = "failed"
               /\ UNCHANGED api
    /\ UNCHANGED <<pureVars, schemas, selectedTags, modules, answers, templates, dirs,
                   writes, cursor, dependencyCheck>>

\* parserService.validateVersion(api)
ValidateVersion ==
    /\ pc = "validate"
    /\ error' = validateVersion(api[1])
    /\ pc' = IF validateVersion(api[1]) = <<>> THEN "tags" ELSE "failed"
    /\ UNCHANGED <<pureVars, mapperVars, answers, templates, dirs, writes, cursor,
                   dependencyCheck>>

\* extractTags and runTagSelection on a document with tags, whatever the
\* selection mode
SelectTagsInAnyMode ==
    /\ pc = "tags"
    /\ LET availableTags == extractTags(api[1])
       IN  IF Len(availableTags) > 0
           THEN \E sel \in Selections(availableTags) : selectedTags' = <<sel>>
           ELSE selectedTags' = <<>>
    /\ pc' = "map"
    /\ UNCHANGED <<pureVars, schemas, api, modules, answers, templates, dirs, writes,
                   error, cursor, dependencyCheck>>

\* extractTags and, in selective mode on a document with tags,
\* runTagSelection
SelectTags ==
    /\ pc = "tags"
    /\ LET availableTags == extractTags(api[1])
       IN  IF answers[1].selectionMode = "selective" /\ Len(availableTags) > 0
           THEN \E sel \in Selections(availableTags) : selectedTags' = <<sel>>
           ELSE selectedTags' = <<>>
    /\ pc' = "map"
    /\ UNCHANGED <<pureVars, schemas, api, modules, answers, templates, dirs, writes,
                   error, cursor, dependencyCheck>>

\* new SwaggerMapper(), mapToModules, getSchemas and the return on no module
MapModules ==
    /\ pc = "map"
    /\ \E result \in {mapToModules(<<>>, api[1], selectedTags)} :
          /\ schemas' = result.schemas
          /\ modules' = <<result.modules>>
          /\ pc' = AfterMapping(result.modules)
    /\ UNCHANGED <<pureVars, api, selectedTags, answers, templates, dirs, writes, error,
                   cursor, dependencyCheck>>

\* generator.initialize()
Initialize ==
    /\ pc = "constructed"
    /\ templates' = loadTemplates(templates)
    /\ pc' = "initialized"
    /\ UNCHANGED <<pureVars, mapperVars, answers, dirs, writes, error, cursor,
                   dependencyCheck>>

\* the start of generate: fs.ensureDir(outputDir)
EnsureOutputDir ==
    /\ dirs' = dirs \cup {OutputDir}
    /\ cursor' = 1
    /\ pc' = "modules"
    /\ UNCHANGED <<pureVars, mapperVars, answers, templates, writes, error,
                   dependencyCheck>>

\* generator.generate(context) after initialize
GenerateBegin == pc = "initialized" /\ EnsureOutputDir

\* generator.generate(context) on a CodeGenerator that was not initialized
GenerateWithoutInitialize == pc = "constructed" /\ EnsureOutputDir

\* CodeGenerator.generateModule for the next module, and the catch of
\* generate, which throws the error it caught
GenerateModule ==
    /\ pc = "modules"
    /\ cursor <= Len(modules[1])
    /\ \E renders \in BOOLEAN :
          \E r \in {TemplateEngineGenerateModule(templates, modules[1][cursor],
                                                 answers[1].library,
                                                 answers[1].language, renders)} :
              IF r.error # <<>>
              THEN /\ error' = r.error
                   /\ pc' = "failed"
                   /\ UNCHANGED <<dirs, writes, cursor>>
              ELSE \E file \in {ModuleFile(modules[1][cursor], answers[1].library,
                                           answers[1].language, r.code[1])} :
                      /\ dirs' = dirs \cup {file.folder}
                      /\ writes' = Append(writes, file)
                      /\ cursor' = cursor + 1
                      /\ UNCHANGED <<error, pc>>
    /\ UNCHANGED <<pureVars, mapperVars, answers, templates, dependencyCheck>>

\* generateIndexFile called without waiting for the loop over the modules
GenerateIndexFileEarly ==
    /\ pc = "modules"
    /\ writes' = Append(writes, IndexFile(modules[1], answers[1].library,
                                          answers[1].language))
    /\ pc' = IF answers[1].language = "typescript" THEN "types" ELSE "readme"
    /\ UNCHANGED <<pureVars, mapperVars, answers, templates, dirs, error, cursor,
                   dependencyCheck>>

\* generateIndexFile, after the loop over the modules
GenerateIndexFile ==
    /\ pc = "modules"
    /\ cursor > Len(modules[1])
    /\ writes' = Append(writes, IndexFile(modules[1], answers[1].library,
                                          answers[1].language))
    /\ pc' = IF answers[1].language = "typescript" THEN "types" ELSE "readme"
    /\ UNCHANGED <<pureVars, mapperVars, answers, templates, dirs, error, cursor,
                   dependencyCheck>>

GenerateTypesFile ==
    /\ pc = "types"
    /\ writes' = Append(writes, TypesFile(schemas, answers[1].language))
    /\ pc' = "readme"
    /\ UNCHANGED <<pureVars, mapperVars, answers, templates, dirs, error, cursor,
                   dependencyCheck>>

GenerateReadme ==
    /\ pc = "readme"
    /\ writes' = Append(writes, ReadmeFile(modules[1], answers[1].library,
                                           answers[1].language))
    /\ pc' = "generated"
    /\ UNCHANGED <<pureVars, mapperVars, answers, templates, dirs, error, cursor,
                   dependencyCheck>>

\* dependencyManager.checkAndInstall(library) and the return of initCommand
CheckAndInstall ==
    /\ pc = "generated"
    /\ dependencyCheck' = TRUE
    /\ pc' = "done"
    /\ UNCHANGED <<pureVars, mapperVars, answers, templates, dirs, writes, error, cursor>>

-----------------------------------------------------------------------------
(* Specification of initCommand *)

InitCommand ==
    /\ PureIdle
    /\ MapperIdle
    /\ pc = "wizard"
    /\ answers = <<>>
    /\ templates = {}
    /\ dirs = {}
    /\ writes = <<>>
    /\ error = <<>>
    /\ cursor = 0
    /\ dependencyCheck = FALSE

NextCommand ==
    \/ RunWizard
    \/ ParseSchema
    \/ ValidateVersion
    \/ SelectTags
    \/ MapModules
    \/ Initialize
    \/ GenerateBegin
    \/ GenerateModule
    \/ GenerateIndexFile
    \/ GenerateTypesFile
    \/ GenerateReadme
    \/ CheckAndInstall

SpecCommand == InitCommand /\ [][NextCommand]_vars

-----------------------------------------------------------------------------
(* Specification of a CodeGenerator used on its own: it is constructed     *)
(* with the modules and the catalog of a mapped document, initialize may   *)
(* be left out, and the library may be any string.                         *)

InitGenerator ==
    /\ PureIdle
    /\ \E doc \in PipelineDocs \cup FolderCollisionDocs :
          \E result \in {mapToModules(<<>>, doc, <<>>)} :
              /\ api = <<doc>>
              /\ schemas = result.schemas
              /\ modules = <<result.modules>>
    /\ selectedTags = <<>>
    /\ pc = "constructed"
    /\ answers \in { <<[library |-> l, language |-> g, selectionMode |-> "all"]>> :
                       l \in Libraries \cup {UnknownLibraryName}, g \in Languages }
    /\ templates = {}
    /\ dirs = {}
    /\ writes = <<>>
    /\ error = <<>>
    /\ cursor = 0
    /\ dependencyCheck = FALSE

NextGenerator ==
    \/ Initialize
    \/ GenerateBegin
    \/ GenerateWithoutInitialize
    \/ GenerateModule
    \/ GenerateIndexFile
    \/ GenerateTypesFile
    \/ GenerateReadme

SpecGenerator == InitGenerator /\ [][NextGenerator]_vars

-----------------------------------------------------------------------------
(* Properties of CodeGenerator.generate, under SpecGenerator *)

\* generate has been called
GenerateCalled == cursor >= 1

\* the positions in writes of the files of one kind
WritesOfKind(kind) == { i \in 1..Len(writes) : writes[i].content.kind = kind }

\* C17: when the library has no registered template (it is not one of the
\* four libraries, or loadTemplates has not run), no module file is written
\* and the rendering of the first module ends generate with the error
\* thrown by TemplateEngine.generateModule, unchanged.
UnknownLibrary ==
    (GenerateCalled /\ answers[1].library \notin templates) =>
        /\ WritesOfKind("module") = {}
        /\ (Len(modules[1]) > 0 /\ pc # "modules") =>
              /\ pc = "failed"
              /\ error = <<TemplateNotFound(answers[1].library)>>

\* generate on an initialized generator has failed on a library outside the
\* four registered ones
UnknownLibraryWitness ==
    /\ pc = "failed"
    /\ GenerateCalled
    /\ templates = Libraries
    /\ answers[1].library = UnknownLibraryName
    /\ error = <<TemplateNotFound(UnknownLibraryName)>>
    /\ Len(modules[1]) = 2

\* C18: when generate has ended with an error, nothing of the run is in the
\* output directory: no module file, no index, no types file, no README.
NoPartialOutput ==
    pc = "failed" =>
        /\ error # <<>>
        /\ writes = <<>>

-----------------------------------------------------------------------------
(* Properties of initCommand, under SpecCommand *)

\* C19: when the mapping yields no module, initCommand has returned without
\* an error, the generator has created no directory and written no file,
\* and the dependency check has not been started.
EmptySelection ==
    (modules # <<>> /\ Len(modules[1]) = 0) =>
        /\ pc = "done"
        /\ error = <<>>
        /\ dirs = {}
        /\ writes = <<>>
        /\ ~dependencyCheck

\* initCommand has returned in selective mode on a document with an empty
\* paths object
EmptySelectionWitness ==
    /\ pc = "done"
    /\ modules = << <<>> >>
    /\ answers[1].selectionMode = "selective"
    /\ api[1].paths = << <<>> >>

\* the names of the schema records reachable from the generated modules
ReachableSchemaNames ==
    UNION { { modules[1][i].schemas[j].name : j \in 1..Len(modules[1][i].schemas) } :
              i \in 1..Len(modules[1]) }

\* the required set of the catalog record of a name
RequiredOf(name) ==
    IF MapGet(schemas, name).required = <<>> THEN {}
    ELSE Range(MapGet(schemas, name).required[1])

\* C20: after generate the output holds a types file exactly when the
\* language is typescript; the file declares exactly the schema records
\* reachable from the generated modules, each once, and a property is not
\* optional exactly when the required set of its schema holds its name.
TypesFileContents ==
    (pc \in {"generated", "done"} /\ modules # <<>> /\ Len(modules[1]) > 0) =>
        /\ (WritesOfKind("types") # {}) <=> (answers[1].language = "typescript")
        /\ \A w \in WritesOfKind("types") :
              LET ds == writes[w].content.declarations
              IN  /\ { ds[i].name : i \in 1..Len(ds) } = ReachableSchemaNames
                  /\ \A i, j \in 1..Len(ds) : ds[i].name = ds[j].name => i = j
                  /\ \A i \in 1..Len(ds) :
                        \A p \in ds[i].properties :
                            ~p.optional <=> (p.name \in RequiredOf(ds[i].name))

-----------------------------------------------------------------------------
(* Folder-name collisions, under SpecGenerator *)

\* the folder of a module below the output directory
FolderOf(module) == toKebabCase(module.moduleName)

\* the tags of the modules whose file is in a folder: a write replaces the
\* file an earlier write left under the same folder and name
ModuleOutputs(folder) ==
    { writes[i].content.tag :
        i \in { k \in WritesOfKind("module") :
                  /\ writes[k].folder = folder
                  /\ \A j \in (k + 1)..Len(writes) :
                        ~(writes[j].folder = folder /\ writes[j].name = writes[k].name) } }

\* the positions of the modules that share the folder of a later module
SharedFolders ==
    { FolderOf(modules[1][i]) :
        i \in { k \in 1..Len(modules[1]) :
                  \E j \in (k + 1)..Len(modules[1]) :
                      FolderOf(modules[1][j]) = FolderOf(modules[1][k]) } }

\* the last module of the run with a given folder
LastIn(folder) ==
    LET last == CHOOSE k \in 1..Len(modules[1]) :
                    /\ FolderOf(modules[1][k]) = folder
                    /\ \A j \in (k + 1)..Len(modules[1]) : FolderOf(modules[1][j]) # folder
    IN  modules[1][last]

-----------------------------------------------------------------------------
(* TemplateEngine.convertToJavaScript on the text of a rendered module.    *)
(* Each replace scans the text from the left; where the pattern matches,   *)
(* the match is replaced and the scan goes on behind it.  In each pattern  *)
(* a repetition is followed by a character outside its class, so that the *)
(* longest run is the only match, except the run of <...>, which ends at   *)
(* the last '>' it holds.                                                  *)

\* \w
IsWordChar(c) == c \in Range(LowerLetters) \cup Range(UpperLetters) \cup Digits \cup {"_"}

\* \s, for the white space of the rendered texts
IsWhiteSpace(c) == c \in {" ", "\n", "\t"}

\* [\w\[\]<>|]
IsTypeChar(c) == IsWordChar(c) \/ c \in {"[", "]", "<", ">", "|"}

\* [\w\[\]<>|, ]
IsGenericChar(c) == IsTypeChar(c) \/ c \in {",", " "}

\* [^}]
IsNotClosingBrace(c) == c # "}"

\* the character classes of the patterns, by name
InClass(c, class) ==
    CASE class = "word"         -> IsWordChar(c)
      [] class = "space"        -> IsWhiteSpace(c)
      [] class = "type"         -> IsTypeChar(c)
      [] class = "generic"      -> IsGenericChar(c)
      [] class = "notClosing"   -> IsNotClosingBrace(c)

\* the length of the longest run of characters of a class in str from
\* index i
RunFrom(str, i, class) ==
    CHOOSE n \in 0..(Len(str) - i + 1) :
        /\ \A k \in i..(i + n - 1) : InClass(str[k], class)
        /\ (i + n > Len(str) \/ ~InClass(str[i + n], class))

\* str has the characters of lit from index i
HasAt(str, i, lit) ==
    /\ i + Len(lit) - 1 <= Len(str)
    /\ SubSeq(str, i, i + Len(lit) - 1) = lit

ExportInterface ==
    <<"e","x","p","o","r","t"," ","i","n","t","e","r","f","a","c","e"," ">>

\* the length of the match of /export interface \w+ \{[^}]+\}\n\n/ at the
\* start of str, 0 without a match
InterfaceMatch(str) ==
    IF ~HasAt(str, 1, ExportInterface) THEN 0
    ELSE LET nameAt == Len(ExportInterface) + 1
             name   == RunFrom(str, nameAt, "word")
             bodyAt == nameAt + name + 2
             body   == RunFrom(str, bodyAt, "notClosing")
         IN  IF /\ name > 0
                /\ HasAt(str, nameAt + name, <<" ", "{">>)
                /\ body > 0
                /\ HasAt(str, bodyAt + body, <<"}", "\n", "\n">>)
             THEN bodyAt + body + 2
             ELSE 0

\* jsCode.replace(/export interface \w+ \{[^}]+\}\n\n/g, '')
RECURSIVE removeInterfaces(_)
removeInterfaces(str) ==
    IF str = <<>> THEN <<>>
    ELSE IF InterfaceMatch(str) > 0
         THEN removeInterfaces(SubSeq(str, InterfaceMatch(str) + 1, Len(str)))
         ELSE <<Head(str)>> \o removeInterfaces(Tail(str))

\* the length of the match of /(\w+):\s*[\w\[\]<>|]+/ at the start of str
AnnotationMatch(str) ==
    LET name   == RunFrom(str, 1, "word")
        space  == RunFrom(str, name + 2, "space")
        typeAt == name + 2 + space
        type   == RunFrom(str, typeAt, "type")
    IN  IF name > 0 /\ HasAt(str, name + 1, <<":">>) /\ type > 0
        THEN typeAt + type - 1
        ELSE 0

\* jsCode.replace(/(\w+):\s*[\w\[\]<>|]+/g, '$1')
RECURSIVE removeAnnotations(_)
removeAnnotations(str) ==
    IF str = <<>> THEN <<>>
    ELSE IF AnnotationMatch(str) > 0
         THEN SubSeq(str, 1, RunFrom(str, 1, "word"))
                  \o removeAnnotations(SubSeq(str, AnnotationMatch(str) + 1, Len(str)))
         ELSE <<Head(str)>> \o removeAnnotations(Tail(str))

\* the length of the match of /<[\w\[\]<>|, ]+>/ at the start of str
GenericMatch(str) ==
    IF ~HasAt(str, 1, <<"<">>) THEN 0
    ELSE LET run    == RunFrom(str, 2, "generic")
             closes == { k \in 3..(run + 1) : str[k] = ">" }
         IN  IF closes = {} THEN 0
             ELSE CHOOSE k \in closes : \A j \in closes : j <= k

\* jsCode.replace(/<[\w\[\]<>|, ]+>/g, '')
RECURSIVE removeGenerics(_)
removeGenerics(str) ==
    IF str = <<>> THEN <<>>
    ELSE IF GenericMatch(str) > 0
         THEN removeGenerics(SubSeq(str, GenericMatch(str) + 1, Len(str)))
         ELSE <<Head(str)>> \o removeGenerics(Tail(str))

\* the length of the match of /as \w+/ at the start of str
AssertionMatch(str) ==
    IF HasAt(str, 1, <<"a", "s", " ">>) /\ RunFrom(str, 4, "word") > 0
    THEN 3 + RunFrom(str, 4, "word")
    ELSE 0

\* jsCode.replace(/as \w+/g, '')
RECURSIVE removeAssertions(_)
removeAssertions(str) ==
    IF str = <<>> THEN <<>>
    ELSE IF AssertionMatch(str) > 0
         THEN removeAssertions(SubSeq(str, AssertionMatch(str) + 1, Len(str)))
         ELSE <<Head(str)>> \o removeAssertions(Tail(str))

\* the length of the match of /\):\s*[\w\[\]<>|]+\s*=>/ at the start of str
ReturnTypeMatch(str) ==
    IF ~HasAt(str, 1, <<")", ":">>) THEN 0
    ELSE LET space  == RunFrom(str, 3, "space")
             typeAt == 3 + space
             type   == RunFrom(str, typeAt, "type")
             after  == RunFrom(str, typeAt + type, "space")
             arrow  == typeAt + type + after
         IN  IF type > 0 /\ HasAt(str, arrow, <<"=", ">">>) THEN arrow + 1 ELSE 0

\* jsCode.replace(/\):\s*[\w\[\]<>|]+\s*=>/g, ') =>')
RECURSIVE removeReturnTypes(_)
removeReturnTypes(str) ==
    IF str = <<>> THEN <<>>
    ELSE IF ReturnTypeMatch(str) > 0
         THEN <<")", " ", "=", ">">>
                  \o removeReturnTypes(SubSeq(str, ReturnTypeMatch(str) + 1, Len(str)))
         ELSE <<Head(str)>> \o removeReturnTypes(Tail(str))

\* convertToJavaScript without the removal of the interface definitions
convertToJavaScriptKeepingInterfaces(tsCode) ==
    removeReturnTypes(removeAssertions(removeGenerics(removeAnnotations(tsCode))))

\* TemplateEngine.convertToJavaScript(tsCode)
convertToJavaScript(tsCode) ==
    removeReturnTypes(removeAssertions(removeGenerics(removeAnnotations(
        removeInterfaces(tsCode)))))

\* the end of TemplateEngine.generateModule: the code of the template is
\* converted for javascript and returned as it is otherwise
CodeFor(language, code) ==
    IF language = "javascript" THEN convertToJavaScript(code) ELSE code

-----------------------------------------------------------------------------
(* TemplateEngine.generateModule on rendered texts.  The templates render  *)
(* TypeScript; a rendered text is a sequence of the blocks below.          *)

\* an interface with one property, followed by an empty line
InterfaceBlock ==
    <<"e","x","p","o","r","t"," ","i","n","t","e","r","f","a","c","e"," ",
      "A"," ","{","\n"," "," ","b",":"," ","T",";","\n","}","\n","\n">>

\* the same interface followed by the end of its line only
InterfaceAtEnd ==
    <<"e","x","p","o","r","t"," ","i","n","t","e","r","f","a","c","e"," ",
      "A"," ","{","\n"," "," ","b",":"," ","T",";","\n","}","\n">>

\* an interface without a property, followed by an empty line
InterfaceEmpty ==
    <<"e","x","p","o","r","t"," ","i","n","t","e","r","f","a","c","e"," ",
      "A"," ","{","}","\n","\n">>

\* an arrow function with an annotated parameter and return type
ArrowBlock ==
    <<"c","o","n","s","t"," ","f"," ","="," ","(","a",":"," ","T",")",":",
      " ","T","[","]"," ","=",">"," ","a",";","\n">>

\* a call with a type argument and a type assertion
GenericBlock ==
    <<"g","<","T",">","(","r"," ","a","s"," ","T",")",";","\n">>

\* an arrow function with an optional parameter
OptionalBlock ==
    <<"c","o","n","s","t"," ","h"," ","="," ","(","a","?",":"," ","T",")",
      " ","=",">"," ","a",";","\n">>

\* a statement without TypeScript syntax
PlainBlock ==
    <<"x"," ","="," ","1",";","\n">>

\* the text convertToJavaScript makes of ArrowBlock
ArrowBlockJs ==
    <<"c","o","n","s","t"," ","f"," ","="," ","(","a",")"," ","=",">"," ",
      "a",";","\n">>

\* the text convertToJavaScript makes of GenericBlock
GenericBlockJs ==
    <<"g","(","r"," ",")",";","\n">>

TextBlocks ==
    {InterfaceBlock, InterfaceAtEnd, InterfaceEmpty, ArrowBlock, GenericBlock,
     OptionalBlock, PlainBlock}

\* the simple cases: an interface written export interface Name {, a body
\* that is not empty and holds no '}', and '}' followed by an empty line;
\* annotations of a name directly followed by ':' and a type of the
\* characters of [\w\[\]<>|]
SimpleBlocks == {InterfaceBlock, ArrowBlock, GenericBlock, PlainBlock}

\* most blocks of a rendered text
MaxBlocks == 2

\* the text of a sequence of blocks
RECURSIVE TextOf(_)
TextOf(blocks) ==
    IF blocks = <<>> THEN <<>> ELSE Head(blocks) \o TextOf(Tail(blocks))

InitText ==
    /\ path = RootPath
    /\ method = GET
    /\ functionName = <<>>
    /\ inferredTag = <<>>
    /\ schema = NoSchema
    /\ endpoint = <<>>
    /\ MapperIdle
    /\ TagIdle
    /\ responsesArg = <<>>
    /\ pc = "idle"
    /\ answers = <<>>
    /\ templates = {}
    /\ dirs = {}
    /\ writes = <<>>
    /\ error = <<>>
    /\ cursor = 0
    /\ dependencyCheck = FALSE
    /\ rendered \in { <<blocks>> : blocks \in SeqsUpTo(TextBlocks, MaxBlocks) }
    /\ languageArg \in Languages
    /\ generatedCode = <<>>

\* TemplateEngine.generateModule from the text the template has rendered
CallGenerateModuleOnText ==
    /\ rendered # <<>>
    /\ generatedCode = <<>>
    /\ generatedCode' = <<CodeFor(languageArg, TextOf(rendered[1]))>>
    /\ UNCHANGED <<path, method, functionName, inferredTag, schema, endpoint,
                   mapperVars, tagVars, responsesArg, pc, answers, templates, dirs,
                   writes, error, cursor, dependencyCheck, rendered, languageArg>>

NextText == CallGenerateModuleOnText

SpecText == InitText /\ [][NextText]_vars

\* the text holds the start of an exported interface block
HasInterfaceBlock(text) == \E i \in 1..Len(text) : HasAt(text, i, ExportInterface)

\* the text holds a name or a '?' directly followed by ':' and, after white
\* space, by a word
HasAnnotation(text) ==
    \E i \in 2..(Len(text) - 1) :
        /\ text[i] = ":"
        /\ (IsWordChar(text[i - 1]) \/ text[i - 1] = "?")
        /\ LET next == i + 1 + RunFrom(text, i + 1, "space")
           IN  next <= Len(text) /\ IsWordChar(text[next])

\* C22: for typescript the returned code is the rendered text, and for
\* javascript every rendered text with an exported interface block gives
\* code with no interface block and no ': Type' annotation.
LanguageDowngrade ==
    generatedCode # <<>> =>
        /\ (languageArg = "typescript" => generatedCode[1] = TextOf(rendered[1]))
        /\ (languageArg = "javascript" /\ HasInterfaceBlock(TextOf(rendered[1]))) =>
              /\ ~HasInterfaceBlock(generatedCode[1])
              /\ ~HasAnnotation(generatedCode[1])

\* C22, amended: for typescript the returned code is the rendered text, and
\* for javascript every rendered text of simple cases with an exported
\* interface block gives code with no interface block and no ': Type'
\* annotation.
LanguageDowngradeSimpleCases ==
    generatedCode # <<>> =>
        /\ (languageArg = "typescript" => generatedCode[1] = TextOf(rendered[1]))
        /\ (/\ languageArg = "javascript"
            /\ HasInterfaceBlock(TextOf(rendered[1]))
            /\ Range(rendered[1]) \subseteq SimpleBlocks) =>
              /\ ~HasInterfaceBlock(generatedCode[1])
              /\ ~HasAnnotation(generatedCode[1])

\* the interface followed by the arrow function has been converted to
\* javascript: the code is the arrow function without its annotations
LanguageDowngradeWitness ==
    /\ languageArg = "javascript"
    /\ rendered = << <<InterfaceBlock, ArrowBlock>> >>
    /\ generatedCode = <<ArrowBlockJs>>

-----------------------------------------------------------------------------
(* Properties of parseSchema, under SpecCommand *)

\* parseSchema has returned or thrown
Parsed == pc \notin {"wizard", "parse"}

\* C23: a source that is fetched or found is parsed whenever it
\* dereferences, whether SwaggerParser.validate accepts it or not, and its
\* document goes on into initCommand; parseSchema fails only when the source
\* cannot be fetched or found or when it does not dereference, and the
\* message of the Error then starts with 'Failed to fetch schema from URL: '
\* or with 'Failed to parse Swagger schema: '.
LenientMode ==
    Parsed =>
        LET source == answers[1].schemaSource
        IN  /\ (source.reachable /\ source.dereferences) => api # <<>>
            /\ api = <<>> =>
                  /\ ~source.reachable \/ ~source.dereferences
                  /\ pc = "failed"
                  /\ error # <<>>
                  /\ Head(error[1].message) \in
                        {"Failed to fetch schema from URL: ",
                         "Failed to parse Swagger schema: "}

\* generate has written the modules of a document whose source fails
\* validation and dereferences
LenientModeWitness ==
    /\ pc = "generated"
    /\ ~answers[1].schemaSource.validates
    /\ answers[1].schemaSource.dereferences
    /\ Len(modules[1]) = 2
    /\ WritesOfKind("module") # {}

-----------------------------------------------------------------------------
(* Order of the steps of a generation run, under SpecCommand *)

\* the kinds of the files written so far, in the order of the writes
WrittenKinds == [i \in 1..Len(writes) |-> writes[i].content.kind]

\* a CodeGenerator has been constructed
GeneratorStarted ==
    pc \in {"constructed", "initialized", "modules", "types", "readme", "generated"}
        \/ dirs # {} \/ writes # <<>>

\* C24: the index file is written after the file of every module, the types
\* file is written for typescript only and after the index file, and the
\* README is written last; the generator starts only after parseSchema and
\* validateVersion have succeeded, and the dependency check starts only
\* after generate has written all its files without an error.
WriteOrdering ==
    /\ \A i \in WritesOfKind("index") :
          /\ \A m \in 1..Len(modules[1]) :
                \E k \in 1..(i - 1) :
                    /\ writes[k].content.kind = "module"
                    /\ writes[k].content.tag = modules[1][m].tag
          /\ \A k \in WritesOfKind("module") : k < i
    /\ \A t \in WritesOfKind("types") :
          /\ answers[1].language = "typescript"
          /\ \E i \in WritesOfKind("index") : i < t
    /\ \A r \in WritesOfKind("readme") :
          /\ r = Len(writes)
          /\ \E i \in WritesOfKind("index") : i < r
          /\ answers[1].language = "typescript" => \E t \in WritesOfKind("types") : t < r
    /\ GeneratorStarted =>
          /\ parseSchema(answers[1].schemaSource).error = <<>>
          /\ api # <<>>
          /\ validateVersion(api[1]) = <<>>
    /\ dependencyCheck =>
          /\ WritesOfKind("readme") # {}
          /\ error = <<>>

\* initCommand has returned after a typescript run on two modules: the two
\* module files, the index, the types file and the README were written in
\* this order, and the dependency check has run
WriteOrderingWitness ==
    /\ pc = "done"
    /\ dependencyCheck
    /\ answers[1].language = "typescript"
    /\ WrittenKinds = <<"module", "module", "index", "types", "readme">>

-----------------------------------------------------------------------------
(* Tag selection in initCommand, under SpecCommand *)

\* the tags the operations of a document declare
AllDeclaredTags(doc) == UNION { DeclaredTagsOf(d) : d \in DeclaredOps(doc) }

\* C25: a filter is passed to mapToModules only in selective mode on a
\* document that declares a tag, and it is then a non-empty selection of the
\* declared tags, which extractTags returns sorted and without duplicates;
\* in selective mode on a document without declared tags every operation is
\* a member of the module of its inferred tag, and on a document with
\* declared tags an untagged operation is a member of a module only if its
\* inferred tag is a selected tag.
TagSelection ==
    /\ api # <<>> =>
          LET available == extractTags(api[1])
          IN  /\ Range(available) = AllDeclaredTags(api[1])
              /\ \A i, j \in 1..Len(available) :
                    i < j => StringLess(available[i], available[j])
    /\ selectedTags # <<>> =>
          /\ answers[1].selectionMode = "selective"
          /\ AllDeclaredTags(api[1]) # {}
          /\ selectedTags[1] # <<>>
          /\ Range(selectedTags[1]) \subseteq AllDeclaredTags(api[1])
    /\ (modules # <<>> /\ answers[1].selectionMode = "selective") =>
          \A d \in DeclaredOps(api[1]) :
              /\ AllDeclaredTags(api[1]) = {} =>
                    \E i \in 1..Len(modules[1]) :
                        /\ modules[1][i].tag = InferredTagOf(d.path)
                        /\ MemberOf(d, modules[1][i])
              /\ (/\ AllDeclaredTags(api[1]) # {}
                  /\ DeclaredTagsOf(d) = {}
                  /\ \E i \in 1..Len(modules[1]) : MemberOf(d, modules[1][i])) =>
                    /\ selectedTags # <<>>
                    /\ Includes(selectedTags[1], InferredTagOf(d.path))

\* in selective mode, on GET /products without tags and POST / tagged
\* Products, the tag Products was selected and the module Products holds
\* both operations
TagSelectionWitness ==
    /\ modules # <<>>
    /\ answers[1].selectionMode = "selective"
    /\ selectedTags = << <<TagProducts>> >>
    /\ Len(modules[1]) = 1
    /\ Len(modules[1][1].endpoints) = 2
    /\ \E d \in DeclaredOps(api[1]) : DeclaredTagsOf(d) = {} /\ d.path = ProductsPath

====
